---- MODULE Spec2Model ----
(***************************************************************************)
(* A model of the provider / processing pipeline of the screenshot solver: *)
(*   - ProcessingHelper (electron/ProcessingHelper.ts): the orchestrator,  *)
(*     its runs, cancellation and the config-updated listener;             *)
(*   - responseParser.ts: parseProblemInfoResponse, parseMultiTaskResponse;*)
(*   - SmartTaskExtractor (smartExtractor.ts inside imageProcessor.ts).    *)
(* Texts are sequences of tokens; every regular expression of the source   *)
(* is modelled by what it matches on those token sequences.                *)
(***************************************************************************)
EXTENDS Integers, Sequences, FiniteSets, TLC

\* ------------------------------------------------------------------ bounds
\* number of processScreenshots invocations per behaviour of Spec
MaxRuns == 2
\* number of direct cancelOngoingRequests invocations per behaviour
MaxCancels == 1
\* number of config-updated events per behaviour
MaxConfigUpdates == 1
\* number of processScreenshots invocations per behaviour of SpecReplies
MaxReplyRuns == 1
\* number of processScreenshots invocations per behaviour of SpecConfig
MaxConfigRuns == 1
\* number of text fragments an extraction reply is built from
MaxFrags == 3
\* number of segments (lines, code blocks) a solution reply is built from
MaxSegs == 3
\* number of parts (words, markers, blanks) an extracted text is built from
MaxParts == 3
\* number of getAvailableModels calls on the adapter instance per behaviour
MaxCalls == 2
\* number of clock ticks per behaviour
MaxTicks == 4
\* registerProvider, createProvider and getAllProvidersWithDetails calls per
\* behaviour of SpecFactory
MaxRegs == 2
MaxCreates == 1
MaxDetails == 1
\* number of parts of the extraction reply in SpecSolve, which bounds the
\* number of sub-tasks of a run
MaxTasks == 2
\* number of parts of the user message in SpecImage
MaxImageParts == 3
\* number of process-screenshots requests over IPC per behaviour of SpecIpc
MaxIpcCalls == 2

\* ------------------------------------------------------------ generic helpers
RECURSIVE Concat(_)
\* the concatenation of a sequence of token sequences
Concat(ss) == IF ss = <<>> THEN <<>> ELSE Head(ss) \o Concat(Tail(ss))

\* sequences over S of length 0..n
SeqsUpTo(S, n) == UNION { [1..k -> S] : k \in 0..n }

\* indices of s whose element satisfies membership in T
IndicesIn(s, T) == { i \in 1..Len(s) : s[i] \in T }

SetMin(S) == CHOOSE x \in S : \A y \in S : x <= y
SetMax(S) == CHOOSE x \in S : \A y \in S : x >= y

\* ---------------------------------------------------------------- text tokens
\* whitespace (what String.prototype.trim and \s remove): space and newline
WhiteTokens == {"_", "nl"}
\* the two code-fence markers (three backquotes, with or without json) that
\* the fence pattern of parseProblemInfoResponse removes
FenceTokens == {"FENCEJSON", "FENCE"}
\* object members: "m" is a plain member ("k":1), "mf" a member whose string
\* value contains a fence marker ("k":"FENCE"), "me" what is left of "mf" once the
\* marker is removed ("k":"")
MemberTokens == {"m", "mf", "me"}
\* JSON texts that are values on their own
AtomTokens == {"null", "0", "7", "[]"}

RECURSIVE TrimLeft(_)
TrimLeft(s) == IF s # <<>> /\ Head(s) \in WhiteTokens THEN TrimLeft(Tail(s)) ELSE s

RECURSIVE TrimRight(_)
TrimRight(s) ==
  IF s # <<>> /\ s[Len(s)] \in WhiteTokens THEN TrimRight(SubSeq(s, 1, Len(s) - 1)) ELSE s

\* String.prototype.trim
Trim(s) == TrimRight(TrimLeft(s))

\* SelectSeq with the test written out (keeps operators first-order)
RECURSIVE Without(_, _)
Without(s, T) ==
  IF s = <<>> THEN <<>>
  ELSE IF Head(s) \in T THEN Without(Tail(s), T) ELSE <<Head(s)>> \o Without(Tail(s), T)

\* content.replace(fence pattern, empty string): the markers go, also the one
\* inside a string value
StripFences(s) ==
  LET t == Without(s, FenceTokens)
  IN [i \in 1..Len(t) |-> IF t[i] = "mf" THEN "me" ELSE t[i]]

\* ------------------------------------------------------------------ JSON.parse
\* nesting depth after the first i tokens
RECURSIVE Depth(_, _)
Depth(s, i) ==
  IF i = 0 THEN 0
  ELSE Depth(s, i - 1) + (IF s[i] = "{" THEN 1 ELSE IF s[i] = "}" THEN -1 ELSE 0)

\* t (no whitespace) is the text of one JSON object: one balanced brace span
\* holding members and nested objects only
IsObjectText(t) ==
  /\ Len(t) >= 2
  /\ t[1] = "{"
  /\ t[Len(t)] = "}"
  /\ \A i \in 1..Len(t) : t[i] \in MemberTokens \cup {"{", "}"}
  /\ \A i \in 1..(Len(t) - 1) : Depth(t, i) >= 1
  /\ Depth(t, Len(t)) = 0

\* JSON.parse throws on s
JsonThrows(s) ==
  LET t == Without(s, WhiteTokens)
  IN ~(IsObjectText(t) \/ (Len(t) = 1 /\ t[1] \in AtomTokens))

\* the value JSON.parse returns (whitespace between tokens is insignificant)
JsonValue(s) ==
  LET t == Without(s, WhiteTokens)
  IN IF IsObjectText(t) THEN [kind |-> "object", value |-> t]
     ELSE IF t = <<"null">> THEN [kind |-> "null", value |-> <<>>]
     ELSE IF t = <<"[]">> THEN [kind |-> "array", value |-> t]
     ELSE [kind |-> "number", value |-> t]

\* ------------------------------------------------- parseProblemInfoResponse
\* (a non-greedy pattern would stop at the first "}")
LazyJsonMatch(cleaned) ==
  LET opens == IndicesIn(cleaned, {"{"})
      first == SetMin(opens)
      closes == { j \in IndicesIn(cleaned, {"}"}) : j > first }
  IN IF opens = {} \/ closes = {} THEN cleaned
     ELSE SubSeq(cleaned, first, SetMin(closes))

\* cleaned.match(/\{[\s\S]*\}/) and the assignment that follows: the span from
\* the first "{" to the last "}" after it (greedy); cleaned itself without match
JsonMatch(cleaned) ==
  LET opens == IndicesIn(cleaned, {"{"})
      first == SetMin(opens)
      closes == { j \in IndicesIn(cleaned, {"}"}) : j > first }
  IN IF opens = {} \/ closes = {} THEN cleaned
     ELSE SubSeq(cleaned, first, SetMax(closes))

\* a problem-info value: what JSON.parse returned, or the fallback record
ParsedInfo(v) ==
  [kind |-> v.kind, value |-> v.value, problem_statement |-> <<>>,
   raw_response |-> <<>>, parse_error |-> FALSE]

FallbackInfo(cleaned, content) ==
  [kind |-> "fallback", value |-> <<>>, problem_statement |-> cleaned,
   raw_response |-> content, parse_error |-> TRUE]

parseProblemInfoResponse(content) ==
  LET cleaned == JsonMatch(Trim(StripFences(content)))
  IN IF JsonThrows(cleaned) THEN FallbackInfo(cleaned, content)
     ELSE ParsedInfo(JsonValue(cleaned))

\* JS null, the value setProblemInfo(null) stores
NullInfo == ParsedInfo([kind |-> "null", value |-> <<>>])

\* !problemInfo
Falsy(info) == info.kind = "null" \/ (info.kind = "number" /\ info.value = <<"0">>)

\* --------------------------------------------------- parseMultiTaskResponse
\* Tokens of a solution reply: "w" a run of word characters (\w+), "c1" "c2"
\* runs of other non-blank characters, "_" "nl" blanks, "FENCE" three
\* backquotes, ":" a colon, "##" a heading marker (### contains it), "---" a
\* rule, "-" a bullet marker, and the section labels in their Russian variant
\* (not word characters for \w): "THOUGHTS" (Razmyshleniya), "TIME" (Vremennaya
\* slozhnost), "SPACE" (Prostranstvennaya slozhnost), "TASK" (Zadacha).
WordTokens == {"w"}
BulletTokens == {"-"}

\* the first position >= i of s whose token is not in T (Len(s) + 1 if none)
RECURSIVE SkipWhile(_, _, _)
SkipWhile(s, i, T) == IF i <= Len(s) /\ s[i] \in T THEN SkipWhile(s, i + 1, T) ELSE i

\* the first position >= i of s whose token is in T (Len(s) + 1 if none)
RECURSIVE FindFirst(_, _, _)
FindFirst(s, i, T) == IF i <= Len(s) /\ s[i] \notin T THEN FindFirst(s, i + 1, T) ELSE i

\* Array.prototype.join
RECURSIVE JoinWith(_, _)
JoinWith(parts, sep) ==
  IF parts = <<>> THEN <<>>
  ELSE IF Len(parts) = 1 THEN parts[1]
  ELSE parts[1] \o sep \o JoinWith(Tail(parts), sep)

\* responseContent.matchAll(fence, optional \w+, \s*, lazy body, fence) from
\* position p on: the captured bodies in order
RECURSIVE codeMatchesFrom(_, _)
codeMatchesFrom(s, p) ==
  LET open == FindFirst(s, p, {"FENCE"})
      b == SkipWhile(s, SkipWhile(s, open + 1, WordTokens), WhiteTokens)
      close == FindFirst(s, b, {"FENCE"})
  IN IF open > Len(s) \/ close > Len(s) THEN <<>>
     ELSE <<SubSeq(s, b, close - 1)>> \o codeMatchesFrom(s, close + 1)

codeMatches(responseContent) == codeMatchesFrom(responseContent, 1)

\* "// ========== Zadacha i =========="
taskTitle(i) == "// ========== Zadacha " \o ToString(i) \o " =========="

\* "**Zadacha i:**"
taskLabel(i) == "**Zadacha " \o ToString(i) \o ":**"

\* (a header only when there is more than one block)
codeHeaderOnlyForMany(matches, responseContent) ==
  IF Len(matches) > 1
    THEN JoinWith([i \in 1..Len(matches) |-> <<taskTitle(i), "nl", "nl">> \o Trim(matches[i])],
                  <<"nl", "nl", "nl">>)
  ELSE IF Len(matches) = 1 THEN Trim(matches[1])
  ELSE responseContent

\* const code
code(matches, responseContent) ==
  IF Len(matches) > 1
    THEN JoinWith([i \in 1..Len(matches) |-> <<taskTitle(i), "nl", "nl">> \o Trim(matches[i])],
                  <<"nl", "nl", "nl">>)
  ELSE IF Len(matches) = 1 THEN <<taskTitle(1), "nl", "nl">> \o Trim(matches[1])
  ELSE responseContent

\* thoughtsPattern: label, optional colon, \s*, lazy body up to the first
\* "##", "Vremennaya" or the end of the text; the captured bodies in order
RECURSIVE allThoughtsFrom(_, _)
allThoughtsFrom(s, p) ==
  LET i == FindFirst(s, p, {"THOUGHTS"})
      c == IF i + 1 <= Len(s) /\ s[i + 1] = ":" THEN i + 2 ELSE i + 1
      b == SkipWhile(s, c, WhiteTokens)
      e == FindFirst(s, b, {"##", "TIME"})
  IN IF i > Len(s) THEN <<>>
     ELSE <<SubSeq(s, b, e - 1)>> \o allThoughtsFrom(s, e)

\* thoughtsText.match(line start, \s*, bullet marker, \s*, rest of line) with
\* the marker and blanks removed from each match
RECURSIVE bulletPointsFrom(_, _)
bulletPointsFrom(t, p) ==
  LET starts == { j \in p..Len(t) :
                    /\ j = 1 \/ t[j] = "nl"
                    /\ SkipWhile(t, j, WhiteTokens) <= Len(t)
                    /\ t[SkipWhile(t, j, WhiteTokens)] \in BulletTokens }
      q == SkipWhile(t, SetMin(starts), WhiteTokens)
      r == SkipWhile(t, q + 1, WhiteTokens)
      e == FindFirst(t, r, {"nl"})
  IN IF starts = {} THEN <<>>
     ELSE <<Trim(SubSeq(t, r, e - 1))>> \o bulletPointsFrom(t, e)

\* thoughtsText.split('\n').map(trim).filter(Boolean)
RECURSIVE nonEmptyLines(_)
nonEmptyLines(t) ==
  LET n == FindFirst(t, 1, {"nl"})
      first == Trim(SubSeq(t, 1, n - 1))
      rest == IF n > Len(t) THEN <<>> ELSE nonEmptyLines(SubSeq(t, n + 1, Len(t)))
  IN IF first = <<>> THEN rest ELSE <<first>> \o rest

\* allThoughts.forEach: what sections k.. push
RECURSIVE thoughtsFrom(_, _)
thoughtsFrom(allThoughts, k) ==
  IF k > Len(allThoughts) THEN <<>>
  ELSE LET bulletPoints == bulletPointsFrom(allThoughts[k], 1)
           items == IF bulletPoints # <<>> THEN bulletPoints
                    ELSE nonEmptyLines(allThoughts[k])
           header == IF items # <<>> /\ Len(allThoughts) > 1
                       THEN << <<taskLabel(k)>> >> ELSE <<>>
       IN header \o items \o thoughtsFrom(allThoughts, k + 1)

\* "Reshenie optimizirovano dlya chitaemosti i effektivnosti"
DefaultThoughts == << <<"Reshenie optimizirovano">> >>
\* 'O(n) - Lineynaya slozhnost'
DefaultTimeComplexity == <<"O(n)", "_", "-", "_", "Lineynaya", "_", "slozhnost">>
\* 'O(1) - Konstantnaya pamyat'
DefaultSpaceComplexity == <<"O(1)", "_", "-", "_", "Konstantnaya", "_", "pamyat">>

\* what the lookahead of the time pattern accepts after newline and blanks
TimeTerminators == {"SPACE", "##", "---"}
\* ... and that of the space pattern
SpaceTerminators == {"##", "---", "TASK"}

\* the lookahead: a newline after position e, blanks, a terminator or the end
LookaheadAt(s, e, terms) ==
  /\ e + 1 <= Len(s)
  /\ s[e + 1] = "nl"
  /\ LET q == SkipWhile(s, e + 2, WhiteTokens) IN q > Len(s) \/ s[q] \in terms

\* s[a..e] is one or more non-empty lines
ValueLines(s, a, e) ==
  /\ a <= e
  /\ s[a] # "nl"
  /\ s[e] # "nl"
  /\ \A k \in a..(e - 1) : ~(s[k] = "nl" /\ s[k + 1] = "nl")

\* the ends a value starting at a can have
ValueEnds(s, a, terms) ==
  { e \in a..Len(s) : ValueLines(s, a, e) /\ LookaheadAt(s, e, terms) }

\* the match of a complexity pattern at the label s[i]: where the captured
\* value starts and ends, <<0, 0>> without match. The colon is taken if it
\* can be, \s* takes as many blanks as it can, the value as few lines as it can.
ComplexityMatchAt(s, i, terms) ==
  LET c == IF i + 1 <= Len(s) /\ s[i + 1] = ":" THEN i + 2 ELSE i + 1
      starts == { a \in c..SkipWhile(s, c, WhiteTokens) : ValueEnds(s, a, terms) # {} }
  IN IF starts # {}
       THEN <<SetMax(starts), SetMin(ValueEnds(s, SetMax(starts), terms))>>
     ELSE IF c = i + 2 /\ ValueEnds(s, i + 1, terms) # {}
       THEN <<i + 1, SetMin(ValueEnds(s, i + 1, terms))>>
     ELSE <<0, 0>>

\* responseContent.matchAll(complexity pattern) from position p on: the
\* captured values in order
RECURSIVE complexitiesFrom(_, _, _, _)
complexitiesFrom(s, p, label, terms) ==
  LET i == FindFirst(s, p, {label})
      mt == ComplexityMatchAt(s, i, terms)
  IN IF i > Len(s) THEN <<>>
     ELSE IF mt = <<0, 0>> THEN complexitiesFrom(s, i + 1, label, terms)
     ELSE <<SubSeq(s, mt[1], mt[2])>> \o complexitiesFrom(s, mt[2] + 1, label, terms)

spaceComplexities(responseContent) ==
  complexitiesFrom(responseContent, 1, "SPACE", SpaceTerminators)

\* (a time extraction that would depend on the code extraction)
timeComplexitiesOfCode(responseContent) ==
  IF codeMatches(responseContent) = <<>> THEN <<>>
  ELSE complexitiesFrom(responseContent, 1, "TIME", TimeTerminators)

timeComplexities(responseContent) ==
  complexitiesFrom(responseContent, 1, "TIME", TimeTerminators)

\* const timeComplexity / spaceComplexity
complexity(matches, default) ==
  IF Len(matches) >= 1
    THEN JoinWith([i \in 1..Len(matches) |-> <<taskLabel(i), "_">> \o Trim(matches[i])],
                  <<"nl", "nl">>)
  ELSE default

parseMultiTaskResponse(responseContent) ==
  LET thoughts == thoughtsFrom(allThoughtsFrom(responseContent, 1), 1)
  IN [returned |-> TRUE,
      code |-> code(codeMatches(responseContent), responseContent),
      thoughts |-> IF Len(thoughts) > 0 THEN thoughts ELSE DefaultThoughts,
      time_complexity |-> complexity(timeComplexities(responseContent), DefaultTimeComplexity),
      space_complexity |-> complexity(spaceComplexities(responseContent), DefaultSpaceComplexity)]

\* ------------------------------------------------------- SmartTaskExtractor
\* Tokens of an extracted text: "rev" the word review, "sql" the word sql,
\* "par" the word parallel, "w" any other word, "TASK" the word Zadacha / Task
\* (capitalised as the split pattern wants it), "1" "2" digits, "." ":" "_" "nl".
DigitTokens == {"1", "2"}

\* text.includes(word)
Has(s, token) == \E i \in 1..Len(s) : s[i] = token

\* lower.match(/(zadacha|task)\s*\d+/i)
HasNumberedTask(s) ==
  \E i \in 1..Len(s) :
    /\ s[i] = "TASK"
    /\ SkipWhile(s, i + 1, WhiteTokens) <= Len(s)
    /\ s[SkipWhile(s, i + 1, WhiteTokens)] \in DigitTokens

detectContentType(text) ==
  IF Has(text, "rev") THEN "code_review"
  ELSE IF Has(text, "sql") THEN "sql_task"
  ELSE IF Has(text, "par") THEN "multithreading"
  ELSE IF HasNumberedTask(text) THEN "multiple_tasks"
  ELSE "coding_task"

\* the position after the task marker that starts at s[q] (\d+\. or the word,
\* \s*, \d+ and a colon), 0 when no marker starts there
MarkerEnd(s, q) ==
  LET d == SkipWhile(s, q, DigitTokens)
      n == SkipWhile(s, q + 1, WhiteTokens)
      m == SkipWhile(s, n, DigitTokens)
  IN IF q > Len(s) THEN 0
     ELSE IF d > q /\ d <= Len(s) /\ s[d] = "." THEN d + 1
     ELSE IF s[q] = "TASK" /\ m > n /\ m <= Len(s) /\ s[m] = ":" THEN m + 1
     ELSE 0

\* the negative lookahead (?!\d+\.|Zadacha|Task) at position q
LineExcluded(s, q) ==
  LET d == SkipWhile(s, q, DigitTokens)
  IN q <= Len(s) /\ (s[q] = "TASK" \/ (d > q /\ d <= Len(s) /\ s[d] = "."))

\* the end of the captured description that starts at a: its first line and
\* every following non-empty line that the lookahead does not exclude
RECURSIVE DescriptionEnd(_, _)
DescriptionEnd(s, a) ==
  LET e == FindFirst(s, a, {"nl"})
  IN IF e + 1 <= Len(s) /\ s[e + 1] # "nl" /\ ~LineExcluded(s, e + 1)
       THEN DescriptionEnd(s, e + 1)
     ELSE e - 1

\* taskPattern.exec(text) from position p on: the captured descriptions
RECURSIVE taskMatchesFrom(_, _)
taskMatchesFrom(s, p) ==
  LET Start(j) == IF j = 1 /\ s[1] # "nl" THEN 1 ELSE j + 1
      Begin(j) == LET c == MarkerEnd(s, Start(j))
                      w == SkipWhile(s, c, WhiteTokens)
                  IN { a \in c..w : a <= Len(s) /\ s[a] # "nl" }
      starts == { j \in p..Len(s) :
                    /\ j = 1 \/ s[j] = "nl"
                    /\ MarkerEnd(s, Start(j)) # 0
                    /\ Begin(j) # {} }
      a == SetMax(Begin(SetMin(starts)))
      e == DescriptionEnd(s, a)
  IN IF starts = {} THEN <<>>
     ELSE <<SubSeq(s, a, e)>> \o taskMatchesFrom(s, e + 1)

\* An ExtractedContent: type, rawText, keys (which of codingTask, codeReview,
\* sqlTask, multipleTasks the object has) and the elements of multipleTasks.
splitIntoTasks(text) ==
  LET ms == taskMatchesFrom(text, 1)
  IN [i \in 1..Len(ms) |->
        [type |-> detectContentType(Trim(ms[i])), rawText |-> Trim(ms[i]),
         keys |-> {"codingTask"}]]

parseExtraction(response) ==
  LET type == detectContentType(response)
      base == [returned |-> TRUE, type |-> type, rawText |-> response,
               keys |-> {}, multipleTasks |-> <<>>]
  IN IF type = "multiple_tasks" \/ (\E i \in 1..(Len(response) - 1) :
                                      response[i] = "1" /\ response[i + 1] = ".")
       THEN [base EXCEPT !.type = "mixed", !.keys = {"multipleTasks"},
                         !.multipleTasks = splitIntoTasks(response)]
     ELSE IF type = "code_review" THEN [base EXCEPT !.keys = {"codeReview"}]
     ELSE IF type = "sql_task" THEN [base EXCEPT !.keys = {"sqlTask"}]
     ELSE [base EXCEPT !.keys = {"codingTask"}]

\* ------------------------------------------------------------- provider model
\* shared/types.ts: the provider ids a configuration may name
ProviderTypes == {"openai", "ollama", "openrouter", "groq", "gemini", "anthropic"}
\* ProviderFactory.providers: the ids with a registered adapter
RegisteredProviders == {"ollama", "openrouter", "gemini"}
SolutionModels == {"s1", "s2"}

\* HTTP statuses a backend answers a chat request with (0: no answer at all)
FailStatuses == {0, 401, 429, 500, 503}

\* an Error object as the orchestrator reads it: message, error.response.status
\* (0 when absent) and axios.isCancel(error)
MakeError(text, detail, responseStatus) ==
  [message |-> <<text, detail>>, responseStatus |-> responseStatus, isCancel |-> FALSE]

\* the error chat of each adapter rejects with for a backend status.
\* Ollama and Gemini throw a plain Error whose message alone names the failure.
\* OpenRouter rethrows what the openai client throws; that library is not part
\* of the repository, so both shapes (withResponse: the error has
\* response.status) are possible.
ChatError(type, status, withResponse) ==
  IF status = 0 THEN MakeError("fetch failed", 0, 0)
  ELSE IF type = "ollama" THEN MakeError("Ollama API error", status, 0)
  ELSE IF type = "gemini" THEN MakeError("Gemini API error", status, 0)
  ELSE MakeError("openai client error", status, IF withResponse THEN status ELSE 0)

\* ----------------------------------------------------------- ProcessingHelper
VARIABLES
  config,                            \* this.config
  provider,                          \* this.provider
  currentProcessingAbortController,  \* 0 is null, r the controller run r created
  aborted,                           \* controllers whose abort() was called
  problemInfo,                       \* deps.getProblemInfo / setProblemInfo
  pc,                                \* where each processScreenshots run stands
  localInfo,                         \* problemInfo local of generateSolutionsHelper
  events,                            \* what each run sent to the main window
  cancelNotices,                     \* NO_SCREENSHOTS sent by cancelOngoingRequests
  chatLog,                           \* the provider.chat calls each run issued
  extractReply,                      \* how the extraction chat call of a run ended
  nCancels,
  nUpdates,
  runInput               \* per run: the queue length it saw and what its key check gave

VARIABLES
  piContent,   \* parseProblemInfoResponse: the content argument
  piResult,    \* ... and the value returned (kind "pending" before the call)
  mtText,      \* parseMultiTaskResponse: the responseContent argument
  mtResult,    \* ... and the value returned
  exText,      \* SmartTaskExtractor.parseExtraction: the response argument
  exResult     \* ... and the value returned

\* one adapter instance (BaseProvider) and the calls of its getAvailableModels
VARIABLES
  adapterType,      \* which adapter class the instance is of
  now,              \* Date.now(), in ms since the instance was built
  modelsCache,      \* this.modelsCache
  lastModelsFetch,  \* this.lastModelsFetch
  storedAt,         \* Date.now() when modelsCache was last assigned (-1: never)
  calls,            \* where each getAvailableModels call stands, what it returned
  nFetches          \* how often fetchFn was invoked

\* the IPC handler of process-screenshots
VARIABLES
  ipcPc,      \* where each invocation of the handler stands
  ipcEvents   \* what each invocation itself sent to the main window

\* ProviderFactory
VARIABLES
  providers,      \* the registry: a Map in insertion order, as <<type, class>> entries
  registrations,  \* every registerProvider call so far, in order
  created,        \* what the last createProvider call gave
  nInstances,     \* adapter instances constructed so far
  nCreates,       \* createProvider calls so far
  details,        \* where getAllProvidersWithDetails stands, and its result
  nDetails        \* getAllProvidersWithDetails calls so far

\* the solve stage of generateSolutionFromExtracted
VARIABLES
  svCalls,    \* the solve chat calls of the run, in the order they were issued
  svDone,     \* the indices of the calls that have settled, in that order
  svResult    \* what generateSolutionFromExtracted has given

\* the translation of a user message by an adapter's chat
VARIABLES
  imMessage,  \* the adapter and the content parts of the user message
  imRequest   \* the message of the request chat sends to the backend

parserVars == <<piContent, piResult>>
multiVars == <<mtText, mtResult>>
extractorVars == <<exText, exResult>>
cacheVars == <<adapterType, now, modelsCache, lastModelsFetch, storedAt, calls, nFetches>>
ipcVars == <<ipcPc, ipcEvents>>
factoryVars == <<providers, registrations, created, nInstances, nCreates, details, nDetails>>
solveVars == <<svCalls, svDone, svResult>>
imageVars == <<imMessage, imRequest>>
\* all that the ProcessingHelper actions leave alone
pureVars == <<parserVars, multiVars, extractorVars, cacheVars, ipcVars, factoryVars, solveVars, imageVars>>

pipelineVars ==
  <<config, provider, currentProcessingAbortController, aborted, problemInfo, pc,
    localInfo, events, cancelNotices, chatLog, extractReply, nCancels, nUpdates, runInput>>

\* run ids: the pc, events, ... of every specification range over them
Runs == 1..(MaxRuns + MaxReplyRuns + MaxConfigRuns)

Event(name, msg) == [ev |-> name, msg |-> msg]
NoMsg == <<"", 0>>
StatusEvent(progress) == Event("processing-status", <<"progress", progress>>)

MsgCanceledByUser == <<"Processing was canceled by the user.", 0>>
MsgInvalidKey == <<"Invalid API key. Please check your settings.", 0>>
MsgRateLimit == <<"API rate limit exceeded. Please try again later.", 0>>
MsgServerError == <<"Server error. Please try again later.", 0>>

\* the message handleProcessingError sends for an error
ErrorMessage(error) ==
  IF error.isCancel THEN MsgCanceledByUser
  ELSE IF error.responseStatus = 401 THEN MsgInvalidKey
  ELSE IF error.responseStatus = 429 THEN MsgRateLimit
  ELSE IF error.responseStatus = 500 THEN MsgServerError
  ELSE error.message

\* handleProcessingError: the error event, then an error processing-status
handleProcessingError(error) ==
  << Event("INITIAL_SOLUTION_ERROR", ErrorMessage(error)),
     Event("processing-status", ErrorMessage(error)) >>

\* the catch block of generateSolutionsHelper: the error string it returns
SolutionHelperError(error) ==
  IF error.isCancel THEN <<"Processing was canceled.", 0>>
  ELSE IF error.responseStatus = 401 THEN <<"Invalid API key.", 0>>
  ELSE IF error.responseStatus = 429 THEN <<"API rate limit exceeded.", 0>>
  ELSE error.message

\* new Error(message)
PlainError(message) == [message |-> message, responseStatus |-> 0, isCancel |-> FALSE]

\* initializeProvider: ProviderFactory.createProvider throws for an id without
\* adapter, which leaves this.provider as it was
initializeProvider(cfg, old, gen) ==
  IF cfg.apiProvider \in RegisteredProviders
  THEN [type |-> cfg.apiProvider, gen |-> gen]
  ELSE old

NoReply == [kind |-> "none", status |-> 0]
\* what a chat call of the run rejected with: the status the backend answered
\* (0: no answer at all) and the error the adapter threw for it
NotRaised == [status |-> -1, error |-> PlainError(<<"", 0>>)]
Raised(type, status, withResponse) ==
  [status |-> status, error |-> ChatError(type, status, withResponse)]

\* queueLen -1: the run has not read the queue; isValid unset: no key check
\* yet; provider and config: this.provider and this.config when the run started;
\* extracted: the problem info the extraction of the run returned; solved: the
\* problem info generateSolutionsHelper of the run went on with
NoInput ==
  [queueLen |-> -1, isValid |-> "unset", provider |-> [type |-> "", gen |-> -1],
   config |-> [apiProvider |-> "", extractionModel |-> "", solutionModel |-> ""],
   raised |-> NotRaised, extracted |-> NullInfo, solved |-> NullInfo]
RunInput(queueLen, isValid) ==
  [queueLen |-> queueLen, isValid |-> isValid, provider |-> provider, config |-> config,
   raised |-> NotRaised, extracted |-> NullInfo, solved |-> NullInfo]

PipelineInit ==
  /\ config \in [apiProvider : RegisteredProviders, extractionModel : {"e1"},
                 solutionModel : {"s1"}]
  /\ provider = [type |-> config.apiProvider, gen |-> 0]
  /\ currentProcessingAbortController = 0
  /\ aborted = {}
  /\ problemInfo = NullInfo
  /\ pc = [r \in Runs |-> "idle"]
  /\ localInfo = [r \in Runs |-> NullInfo]
  /\ events = [r \in Runs |-> <<>>]
  /\ cancelNotices = 0
  /\ chatLog = [r \in Runs |-> <<>>]
  /\ extractReply = [r \in Runs |-> NoReply]
  /\ nCancels = 0
  /\ nUpdates = 0
  /\ runInput = [r \in Runs |-> NoInput]

\* the replies a chat call for extraction can resolve with
ExtractTexts ==
  { <<"FENCEJSON", "{", "m", "}", "FENCE">>,  \* a fenced JSON object
    <<"w", "{", "m", "}">>,                   \* an object after prose
    <<"null">>, <<"0">>, <<"7">>, <<"[]">>,   \* JSON that is not an object
    <<"{", "m">>,                             \* broken JSON
    <<"w", "_", "w">>,                        \* plain prose
    <<>> }                                    \* the empty string

\* the finally block of processScreenshots
FinallyController == 0

\* cancelOngoingRequests: abort and forget the current controller, clear the
\* problem info, and tell the window (NO_SCREENSHOTS) when something was aborted
CancelledAborted ==
  IF currentProcessingAbortController # 0
  THEN aborted \cup {currentProcessingAbortController}
  ELSE aborted

CancelledNotices ==
  IF currentProcessingAbortController # 0 THEN cancelNotices + 1 ELSE cancelNotices

cancelOngoingRequests ==
  /\ nCancels < MaxCancels
  /\ nCancels' = nCancels + 1
  /\ aborted' = CancelledAborted
  /\ cancelNotices' = CancelledNotices
  /\ currentProcessingAbortController' = 0
  /\ problemInfo' = NullInfo
  /\ UNCHANGED <<pureVars, runInput, config, provider, pc, localInfo, events, chatLog, extractReply, nUpdates>>

\* configHelper.on('config-updated'): replace the config, rebuild the provider
ConfigUpdated(newConfig) ==
  /\ nUpdates < MaxConfigUpdates
  /\ nUpdates' = nUpdates + 1
  /\ config' = newConfig
  /\ provider' = initializeProvider(newConfig, provider, nUpdates + 1)
  /\ UNCHANGED <<pureVars, runInput, cancelNotices, currentProcessingAbortController, aborted, problemInfo, pc,
                 localInfo, events, chatLog, extractReply, nCancels>>

\* processScreenshots up to its first real await: cancel what runs, create the
\* controller, check the queue, start the key check. The key check of the
\* key-less backend resolves at once, so the run goes straight on to load the
\* screenshots.
processScreenshotsStart(r, queueLen) ==
  /\ pc[r] = "idle"
  /\ IF r = 1 THEN TRUE ELSE pc[r - 1] # "idle"
  /\ aborted' = CancelledAborted
  /\ cancelNotices' = CancelledNotices
  /\ problemInfo' = NullInfo
  /\ IF queueLen = 0
     THEN /\ events' = [events EXCEPT ![r] = Append(@, Event("NO_SCREENSHOTS", NoMsg))]
          /\ currentProcessingAbortController' = FinallyController
          /\ pc' = [pc EXCEPT ![r] = "done"]
          /\ runInput' = [runInput EXCEPT ![r] = RunInput(queueLen, "unset")]
     ELSE IF config.apiProvider = "ollama"
     THEN /\ events' = [events EXCEPT ![r] = Append(@, Event("INITIAL_START", NoMsg))]
          /\ currentProcessingAbortController' = r
          /\ pc' = [pc EXCEPT ![r] = "load"]
          /\ runInput' = [runInput EXCEPT ![r] = RunInput(queueLen, "true")]
     ELSE /\ UNCHANGED events
          /\ currentProcessingAbortController' = r
          /\ pc' = [pc EXCEPT ![r] = "validate"]
          /\ runInput' = [runInput EXCEPT ![r] = RunInput(queueLen, "unset")]
  /\ UNCHANGED <<config, provider, localInfo, chatLog, extractReply, nCancels, nUpdates>>

\* processScreenshots called directly
StartRun(r, queueLen) == processScreenshotsStart(r, queueLen) /\ UNCHANGED pureVars

\* how the backend answers the request validateApiKey of an adapter sends
BackendAnswers == {"ok", "refused", "unreachable"}

\* validateApiKey of the adapters (OllamaProvider with GET /api/tags, Gemini
\* and OpenRouter with their model listing): each catches what the request
\* throws and answers false
adapterValidateApiKey(type, answer) == answer = "ok"

IpcCalls == 1..MaxIpcCalls

IpcIdle ==
  /\ ipcPc = [h \in IpcCalls |-> "idle"]
  /\ ipcEvents = [h \in IpcCalls |-> <<>>]

\* ipcMain.handle("process-screenshots") up to its await: load the config,
\* build a provider for it (createProvider throws for an id without adapter:
\* the catch sends API_KEY_INVALID), ask it to validate the key
IpcProcessScreenshots(h) ==
  /\ ipcPc[h] = "idle"
  /\ IF h = 1 THEN TRUE ELSE ipcPc[h - 1] # "idle"
  /\ IF config.apiProvider \in RegisteredProviders
     THEN /\ ipcPc' = [ipcPc EXCEPT ![h] = "validate"]
          /\ UNCHANGED ipcEvents
     ELSE /\ ipcPc' = [ipcPc EXCEPT ![h] = "done"]
          /\ ipcEvents' = [ipcEvents EXCEPT ![h] = Append(@, Event("API_KEY_INVALID", NoMsg))]
  /\ UNCHANGED <<imageVars, solveVars, pipelineVars, parserVars, multiVars, extractorVars, cacheVars, factoryVars>>

\* providerInstance.validateApiKey() has answered false: API_KEY_INVALID
IpcKeyInvalid(h, answer) ==
  /\ ipcPc[h] = "validate"
  /\ ~adapterValidateApiKey(config.apiProvider, answer)
  /\ ipcPc' = [ipcPc EXCEPT ![h] = "done"]
  /\ ipcEvents' = [ipcEvents EXCEPT ![h] = Append(@, Event("API_KEY_INVALID", NoMsg))]
  /\ UNCHANGED <<imageVars, solveVars, pipelineVars, parserVars, multiVars, extractorVars, cacheVars, factoryVars>>

\* providerInstance.validateApiKey() has answered true: the handler calls
\* processingHelper.processScreenshots()
IpcKeyValid(h, answer, r, queueLen) ==
  /\ ipcPc[h] = "validate"
  /\ adapterValidateApiKey(config.apiProvider, answer)
  /\ ipcPc' = [ipcPc EXCEPT ![h] = "done"]
  /\ UNCHANGED ipcEvents
  /\ processScreenshotsStart(r, queueLen)
  /\ UNCHANGED <<imageVars, solveVars, parserVars, multiVars, extractorVars, cacheVars, factoryVars>>

\* a key check whose answer the run does not look at
ValidateDoneUnchecked(r, ok) ==
  /\ pc[r] = "validate"
  /\ runInput' = [runInput EXCEPT ![r].isValid = IF ok THEN "true" ELSE "false"]
  /\ events' = [events EXCEPT ![r] = Append(@, Event("INITIAL_START", NoMsg))]
  /\ pc' = [pc EXCEPT ![r] = "load"]
  /\ UNCHANGED <<pureVars, cancelNotices, config, provider, aborted, problemInfo, localInfo, chatLog,
                 extractReply, nCancels, nUpdates, currentProcessingAbortController>>

\* the await of this.provider.validateApiKey() returns (the adapters catch
\* their own errors and answer false)
ValidateDone(r, ok) ==
  /\ pc[r] = "validate"
  /\ runInput' = [runInput EXCEPT ![r].isValid = IF ok THEN "true" ELSE "false"]
  /\ IF ok
     THEN /\ events' = [events EXCEPT ![r] = Append(@, Event("INITIAL_START", NoMsg))]
          /\ pc' = [pc EXCEPT ![r] = "load"]
          /\ UNCHANGED currentProcessingAbortController
     ELSE /\ events' = [events EXCEPT ![r] = Append(@, Event("API_KEY_INVALID", NoMsg))]
          /\ pc' = [pc EXCEPT ![r] = "done"]
          /\ currentProcessingAbortController' = FinallyController
  /\ UNCHANGED <<pureVars, cancelNotices, config, provider, aborted, problemInfo, localInfo, chatLog,
                 extractReply, nCancels, nUpdates>>

\* a provider.chat call as the log keeps it
ChatCall(stage) ==
  [stage |-> stage, provider |-> provider,
   model |-> IF stage = "extract" THEN config.extractionModel ELSE config.solutionModel]

\* loadScreenshotsData and getLanguage have returned: extractProblemInfo sends
\* the extraction request to this.provider (no abort signal is handed over)
LoadDone(r) ==
  /\ pc[r] = "load"
  /\ events' = [events EXCEPT ![r] = Append(@, StatusEvent(20))]
  /\ chatLog' = [chatLog EXCEPT ![r] = Append(@, ChatCall("extract"))]
  /\ pc' = [pc EXCEPT ![r] = "extract"]
  /\ UNCHANGED <<pureVars, runInput, cancelNotices, config, provider, currentProcessingAbortController, aborted,
                 problemInfo, localInfo, extractReply, nCancels, nUpdates>>

\* the extraction chat call resolves with a text: parse it, store and announce
\* the problem info, enter generateSolutionsHelper (which reads the problem
\* info back at once and then awaits getLanguage)
ExtractResolved(r, text) ==
  /\ pc[r] = "extract"
  /\ extractReply' = [extractReply EXCEPT ![r] = [kind |-> "text", status |-> 0]]
  /\ problemInfo' = parseProblemInfoResponse(text)
  /\ localInfo' = [localInfo EXCEPT ![r] = parseProblemInfoResponse(text)]
  /\ events' = [events EXCEPT ![r] =
                  @ \o << Event("PROBLEM_EXTRACTED", NoMsg), StatusEvent(40) >>]
  /\ pc' = [pc EXCEPT ![r] = "solveLang"]
  /\ runInput' = [runInput EXCEPT ![r].extracted = parseProblemInfoResponse(text)]
  /\ UNCHANGED <<pureVars, cancelNotices, config, provider, currentProcessingAbortController, aborted,
                 chatLog, nCancels, nUpdates>>

\* the extraction chat call rejects: catch, handleProcessingError, finally
ExtractRejected(r, status, withResponse) ==
  /\ pc[r] = "extract"
  /\ extractReply' = [extractReply EXCEPT ![r] = [kind |-> "error", status |-> status]]
  /\ runInput' = [runInput EXCEPT ![r].raised =
                    Raised(chatLog[r][1].provider.type, status, withResponse)]
  /\ events' = [events EXCEPT ![r] = @ \o handleProcessingError(
                  ChatError(chatLog[r][1].provider.type, status, withResponse))]
  /\ pc' = [pc EXCEPT ![r] = "done"]
  /\ currentProcessingAbortController' = FinallyController
  /\ UNCHANGED <<pureVars, cancelNotices, config, provider, aborted, problemInfo, localInfo, chatLog,
                 nCancels, nUpdates>>

\* generateSolutionsHelper after its await of getLanguage, with the problem
\* info it holds: none gives the error, any other the solve request
generateSolutionsHelperWith(r, problemInfoRead) ==
  /\ pc[r] = "solveLang"
  /\ localInfo' = [localInfo EXCEPT ![r] = NullInfo]
  /\ IF Falsy(problemInfoRead)
     THEN /\ events' = [events EXCEPT ![r] =
                 @ \o handleProcessingError(PlainError(
                        SolutionHelperError(PlainError(<<"No problem info available", 0>>))))]
          /\ pc' = [pc EXCEPT ![r] = "done"]
          /\ currentProcessingAbortController' = FinallyController
          /\ UNCHANGED chatLog
     ELSE /\ events' = [events EXCEPT ![r] = Append(@, StatusEvent(60))]
          /\ chatLog' = [chatLog EXCEPT ![r] = Append(@, ChatCall("solve"))]
          /\ pc' = [pc EXCEPT ![r] = "solve"]
          /\ UNCHANGED currentProcessingAbortController
  /\ runInput' = [runInput EXCEPT ![r].solved = problemInfoRead]
  /\ UNCHANGED <<pureVars, cancelNotices, config, provider, aborted, problemInfo, extractReply, nCancels, nUpdates>>

\* a helper that reads the shared problem info after the await
SolveLangDoneShared(r) == generateSolutionsHelperWith(r, problemInfo)

\* getLanguage of generateSolutionsHelper has returned: without problem info
\* the helper throws and the run ends in the error handler, otherwise the solve
\* request goes to this.provider
SolveLangDone(r) == generateSolutionsHelperWith(r, localInfo[r])

\* the solve chat call resolves: parse, report success, finally
SolveResolved(r) ==
  /\ pc[r] = "solve"
  /\ events' = [events EXCEPT ![r] =
                  @ \o << StatusEvent(100), Event("SOLUTION_SUCCESS", NoMsg) >>]
  /\ pc' = [pc EXCEPT ![r] = "done"]
  /\ currentProcessingAbortController' = FinallyController
  /\ UNCHANGED <<pureVars, runInput, cancelNotices, config, provider, aborted, problemInfo, localInfo, chatLog,
                 extractReply, nCancels, nUpdates>>

\* the solve chat call rejects: the helper turns the error into a string, the
\* run throws it again as a plain Error and the error handler reports it
SolveRejected(r, status, withResponse) ==
  /\ pc[r] = "solve"
  /\ runInput' = [runInput EXCEPT ![r].raised =
                    Raised(chatLog[r][2].provider.type, status, withResponse)]
  /\ events' = [events EXCEPT ![r] =
                  @ \o handleProcessingError(PlainError(SolutionHelperError(
                         ChatError(chatLog[r][2].provider.type, status, withResponse))))]
  /\ pc' = [pc EXCEPT ![r] = "done"]
  /\ currentProcessingAbortController' = FinallyController
  /\ UNCHANGED <<pureVars, cancelNotices, config, provider, aborted, problemInfo, localInfo, chatLog,
                 extractReply, nCancels, nUpdates>>

\* ------------------------------------------------ BaseProvider model cache
\* protected cacheTtl = 5 * 60 * 1000
cacheTtl == 5 * 60 * 1000
\* the clock advances in steps of this many ms
TickMs == 100000

\* this.modelsCache: null, or an array of models (truthy also when empty)
NullCache == [set |-> FALSE, models |-> <<>>]
Cached(models) == [set |-> TRUE, models |-> models]

\* the model lists a live listing request can deliver
ModelLists == { <<>>, <<"a">>, <<"a", "b">> }
\* the hard-coded list of GeminiProvider.getAvailableModels
GeminiStaticModels ==
  <<"gemini-2.5-flash", "gemini-2.0-flash", "gemini-1.5-pro", "gemini-1.5-flash", "gemini-1.0-pro">>

\* how the listing request of fetchFn ends: with a list of models, or with a
\* failure (network error, non-2xx status, malformed body)
ListingOutcomes ==
  { [ok |-> TRUE, models |-> l] : l \in ModelLists } \cup { [ok |-> FALSE, models |-> <<>>] }

\* the fetchFn each adapter passes to fetchModelsWithCache: Ollama and
\* OpenRouter throw on a failed listing, Gemini answers its static list on a
\* failed or empty listing
fetchFn(type, outcome) ==
  IF type = "gemini"
    THEN [rejected |-> FALSE,
          models |-> IF outcome.ok /\ outcome.models # <<>> THEN outcome.models
                     ELSE GeminiStaticModels]
  ELSE IF outcome.ok THEN [rejected |-> FALSE, models |-> outcome.models]
  ELSE [rejected |-> TRUE, models |-> <<>>]

\* ids of the getAvailableModels calls, in the order they are made
Calls == 1..MaxCalls

IdleCall == [pc |-> "idle", now |-> 0, models |-> <<>>]

CacheIdle ==
  /\ adapterType = "ollama"
  /\ now = 0
  /\ modelsCache = NullCache
  /\ lastModelsFetch = 0
  /\ storedAt = -1
  /\ calls = [c \in Calls |-> IdleCall]
  /\ nFetches = 0

\* time passes
Tick ==
  /\ now < MaxTicks * TickMs
  /\ now' = now + TickMs
  /\ UNCHANGED <<imageVars, solveVars, pipelineVars, parserVars, multiVars, extractorVars, ipcVars, factoryVars,
                 adapterType, modelsCache, lastModelsFetch, storedAt, calls, nFetches>>

\* getAvailableModels -> fetchModelsWithCache up to the await of fetchFn: a
\* fresh cache is returned, otherwise fetchFn is invoked
getAvailableModels(c) ==
  /\ calls[c].pc = "idle"
  /\ IF c = 1 THEN TRUE ELSE calls[c - 1].pc # "idle"
  /\ IF modelsCache.set /\ (now - lastModelsFetch) < cacheTtl
     THEN /\ calls' = [calls EXCEPT ![c] =
                         [pc |-> "returned", now |-> now, models |-> modelsCache.models]]
          /\ UNCHANGED nFetches
     ELSE /\ calls' = [calls EXCEPT ![c] = [pc |-> "fetch", now |-> now, models |-> <<>>]]
          /\ nFetches' = nFetches + 1
  /\ UNCHANGED <<imageVars, solveVars, pipelineVars, parserVars, multiVars, extractorVars, ipcVars, factoryVars,
                 adapterType, now, modelsCache, lastModelsFetch, storedAt>>

\* a cache that also remembers a failed fetch, as an empty list
FetchDoneCachingFailure(c, outcome) ==
  /\ calls[c].pc = "fetch"
  /\ modelsCache' = Cached(fetchFn(adapterType, outcome).models)
  /\ lastModelsFetch' = calls[c].now
  /\ IF fetchFn(adapterType, outcome).rejected
     THEN /\ calls' = [calls EXCEPT ![c].pc = "rejected"]
          /\ UNCHANGED storedAt
     ELSE /\ storedAt' = now
          /\ calls' = [calls EXCEPT ![c].pc = "returned",
                                    ![c].models = fetchFn(adapterType, outcome).models]
  /\ UNCHANGED <<imageVars, solveVars, pipelineVars, parserVars, multiVars, extractorVars, ipcVars, factoryVars,
                 adapterType, now, nFetches>>

\* the await of fetchFn ends: a rejection goes on to the caller, a list is
\* stored together with the time read before the fetch, and returned
FetchDone(c, outcome) ==
  /\ calls[c].pc = "fetch"
  /\ IF fetchFn(adapterType, outcome).rejected
     THEN /\ calls' = [calls EXCEPT ![c].pc = "rejected"]
          /\ UNCHANGED <<modelsCache, lastModelsFetch, storedAt>>
     ELSE /\ modelsCache' = Cached(fetchFn(adapterType, outcome).models)
          /\ lastModelsFetch' = calls[c].now
          /\ storedAt' = now
          /\ calls' = [calls EXCEPT ![c].pc = "returned",
                                    ![c].models = fetchFn(adapterType, outcome).models]
  /\ UNCHANGED <<imageVars, solveVars, pipelineVars, parserVars, multiVars, extractorVars, ipcVars, factoryVars,
                 adapterType, now, nFetches>>

\* ------------------------------------------------------------ ProviderFactory
\* adapter classes: the three the registry starts with, and two a caller may
\* register (one whose constructor refuses an empty apiKey, one whose
\* getProviderInfo throws)
BuiltInClasses == {"OllamaProvider", "OpenRouterProvider", "GeminiProvider"}
ExtensionClasses == {"KeyRequiringProvider", "NoInfoProvider"}

constructorThrows(cls, apiKey) == cls = "KeyRequiringProvider" /\ apiKey = ""
getProviderInfoThrows(cls) == cls = "NoInfoProvider"

\* which fetchFn an instance of the class passes to fetchModelsWithCache
classType(cls) ==
  IF cls = "GeminiProvider" THEN "gemini"
  ELSE IF cls = "OpenRouterProvider" THEN "openrouter"
  ELSE "ollama"

Entry(type, cls) == [type |-> type, cls |-> cls]

\* the static initializer of ProviderFactory.providers
InitialProviders ==
  << Entry("ollama", "OllamaProvider"), Entry("openrouter", "OpenRouterProvider"),
     Entry("gemini", "GeminiProvider") >>

\* Map.get: the index of the entry of a key, 0 when the key is absent
MapIndex(map, type) ==
  IF \E i \in 1..Len(map) : map[i].type = type
  THEN CHOOSE i \in 1..Len(map) : map[i].type = type
  ELSE 0

\* a registry in which the first class registered for an id stays
MapSetKeepingFirst(map, type, cls) ==
  IF MapIndex(map, type) # 0 THEN map ELSE Append(map, Entry(type, cls))

\* Map.set: a key the Map already has keeps its place and gets the new value
MapSet(map, type, cls) ==
  IF MapIndex(map, type) # 0
  THEN [map EXCEPT ![MapIndex(map, type)] = Entry(type, cls)]
  ELSE Append(map, Entry(type, cls))

NotCreated == [kind |-> "none", type |-> "", cls |-> "", id |-> 0]
DetailsIdle == [pc |-> "idle", i |-> 0, type |-> "", cls |-> "", result |-> <<>>]

FactoryIdle ==
  /\ providers = InitialProviders
  /\ registrations = <<>>
  /\ created = NotCreated
  /\ nInstances = 0
  /\ nCreates = 0
  /\ details = DetailsIdle
  /\ nDetails = 0

\* the ids and classes the registerProvider calls of the model pass
RegisterTypes == {"ollama", "groq"}
RegisterClasses == ExtensionClasses
\* the apiKey of the config the createProvider calls of the model pass
ApiKeys == {"", "k"}

registerProvider(type, providerClass) ==
  /\ Len(registrations) < MaxRegs
  /\ providers' = MapSet(providers, type, providerClass)
  /\ registrations' = Append(registrations, Entry(type, providerClass))
  /\ UNCHANGED <<imageVars, solveVars, pipelineVars, parserVars, multiVars, extractorVars, cacheVars, ipcVars,
                 created, nInstances, nCreates, details, nDetails>>

\* createProvider: Unknown provider type for an id without entry, else
\* new ProviderClass(config), which may throw itself
createProvider(type, apiKey) ==
  /\ nCreates < MaxCreates
  /\ nCreates' = nCreates + 1
  /\ IF MapIndex(providers, type) = 0
     THEN /\ created' = [kind |-> "unknown provider type", type |-> type, cls |-> "", id |-> 0]
          /\ UNCHANGED nInstances
     ELSE LET cls == providers[MapIndex(providers, type)].cls IN
          IF constructorThrows(cls, apiKey)
          THEN /\ created' = [kind |-> "constructor threw", type |-> type, cls |-> cls, id |-> 0]
               /\ UNCHANGED nInstances
          ELSE /\ created' = [kind |-> "instance", type |-> type, cls |-> cls,
                              id |-> nInstances + 1]
               /\ nInstances' = nInstances + 1
  /\ UNCHANGED <<imageVars, solveVars, pipelineVars, parserVars, multiVars, extractorVars, cacheVars, ipcVars,
                 providers, registrations, details, nDetails>>

\* the head of the loop body of getAllProvidersWithDetails for the i-th entry
\* of the Map: construct with the dummy config (apiKey empty), getProviderInfo,
\* then call getAvailableModels; the first two are outside the try
EnterEntry(map, i, result) ==
  IF i > Len(map)
    THEN [pc |-> "returned", i |-> i, type |-> "", cls |-> "", result |-> result]
  ELSE IF constructorThrows(map[i].cls, "") \/ getProviderInfoThrows(map[i].cls)
    THEN [pc |-> "rejected", i |-> i, type |-> map[i].type, cls |-> map[i].cls,
          result |-> <<>>]
  ELSE [pc |-> "models", i |-> i, type |-> map[i].type, cls |-> map[i].cls,
        result |-> result]

\* instances the loop head constructs on entering entry i
Constructed(d) ==
  IF d.pc = "models" \/ (d.pc = "rejected" /\ ~constructorThrows(d.cls, "")) THEN 1 ELSE 0

getAllProvidersWithDetails ==
  /\ details.pc \in {"idle", "returned", "rejected"}
  /\ nDetails < MaxDetails
  /\ nDetails' = nDetails + 1
  /\ details' = EnterEntry(providers, 1, <<>>)
  /\ nInstances' = nInstances + Constructed(details')
  /\ UNCHANGED <<imageVars, solveVars, pipelineVars, parserVars, multiVars, extractorVars, cacheVars, ipcVars,
                 providers, registrations, created, nCreates>>

\* await instance.getAvailableModels() of the current entry has settled: a
\* rejection gives the entry an empty list; push, then go on with the next
\* entry of the Map as it is now
ModelsSettled(outcome) ==
  /\ details.pc = "models"
  /\ LET fetched == fetchFn(classType(details.cls), outcome)
         models == IF fetched.rejected THEN <<>> ELSE fetched.models
         result == Append(details.result,
                          [type |-> details.type, info |-> details.cls, models |-> models])
     IN details' = EnterEntry(providers, details.i + 1, result)
  /\ nInstances' = nInstances + Constructed(details')
  /\ UNCHANGED <<imageVars, solveVars, pipelineVars, parserVars, multiVars, extractorVars, cacheVars, ipcVars,
                 providers, registrations, created, nCreates, nDetails>>

\* ----------------------------------------- generateSolutionFromExtracted
\* Tokens of a solve reply: those of parseMultiTaskResponse, and "O(" the text
\* O(, "Slozhnost" that word with a capital, "time" "space" the English words
\* in lower case.

\* content.split(newline)
RECURSIVE splitLines(_)
splitLines(t) ==
  LET n == FindFirst(t, 1, {"nl"})
  IN IF n > Len(t) THEN <<t>>
     ELSE <<SubSeq(t, 1, n - 1)>> \o splitLines(SubSeq(t, n + 1, Len(t)))

\* complexityLines.find(...) || default: of the last two lines that have
\* Slozhnost or O( in them, the first with one of the words
complexityLine(content, words, default) ==
  LET ls == splitLines(content)
      hits == { i \in 1..Len(ls) : Has(ls[i], "Slozhnost") \/ Has(ls[i], "O(") }
      kept == { i \in hits : Cardinality({ j \in hits : j > i }) < 2 }
      found == { i \in kept : \E w \in words : Has(ls[i], w) }
  IN IF found = {} THEN default ELSE ls[SetMin(found)]

\* the solution of one task (the professional flag is left out)
parseProfessionalResponse(content, task) ==
  [code |-> IF codeMatches(content) # <<>> THEN Trim(codeMatches(content)[1]) ELSE content,
   thoughts |-> <<>>,
   time_complexity |-> complexityLine(content, {"TIME", "time"}, <<"O(n)">>),
   space_complexity |-> complexityLine(content, {"SPACE", "space"}, <<"O(1)">>),
   type |-> task.type]

\* the prompt solveSingleTask builds for a task (originalCode stands for
\* task.codeReview.originalCode)
promptFor(task) ==
  IF task.type = "code_review"
  THEN [kind |-> "CODE_REVIEW_PROMPT", language |-> "",
        text |-> IF "codeReview" \in task.keys THEN <<"originalCode">> ELSE task.rawText]
  ELSE [kind |-> "SOLUTION_PROMPT", text |-> task.rawText,
        language |-> IF task.type = "sql_task" THEN "sql" ELSE "java"]

\* the tasks generateSolutionFromExtracted hands to solveSingleTask
solveTasks(extracted) ==
  IF Len(extracted.multipleTasks) > 0
  THEN extracted.multipleTasks
  ELSE << [type |-> extracted.type, rawText |-> extracted.rawText, keys |-> extracted.keys] >>

\* the merged result of several solutions (its tasks field is svCalls)
combined(solutions) ==
  LET times == [i \in 1..Len(solutions) |-> solutions[i].time_complexity]
      spaces == [i \in 1..Len(solutions) |-> solutions[i].space_complexity]
      combinedTime == JoinWith(Without(times, {<<>>}), <<",", "_">>)
      combinedSpace == JoinWith(Without(spaces, {<<>>}), <<",", "_">>)
  IN [code |-> JoinWith([i \in 1..Len(solutions) |-> solutions[i].code], <<"nl", "nl">>),
      thoughts |-> Concat([i \in 1..Len(solutions) |-> solutions[i].thoughts]),
      time_complexity |-> IF combinedTime = <<>> THEN <<"O(n)">> ELSE combinedTime,
      space_complexity |-> IF combinedSpace = <<>> THEN <<"O(1)">> ELSE combinedSpace,
      type |-> "multiple"]

NoSolution ==
  [code |-> <<>>, thoughts |-> <<>>, time_complexity |-> <<>>, space_complexity |-> <<>>,
   type |-> ""]

SolveIdle ==
  /\ svCalls = <<>>
  /\ svDone = <<>>
  /\ svResult = [pc |-> "idle", value |-> NoSolution]

\* generateSolutionFromExtracted after its await of getLanguage: with a
\* non-empty multipleTasks, Promise.all over map starts solveSingleTask for
\* every task, and each runs up to its await of provider.chat; otherwise one
\* solveSingleTask for the content itself
generateSolutionFromExtracted ==
  /\ exResult.returned
  /\ svResult.pc = "idle"
  /\ svCalls' = [i \in 1..Len(solveTasks(exResult)) |->
                  [prompt |-> promptFor(solveTasks(exResult)[i]),
                   model |-> config.solutionModel,
                   state |-> "pending", solution |-> NoSolution]]
  /\ svResult' = [svResult EXCEPT !.pc = "running"]
  /\ UNCHANGED <<imageVars, pipelineVars, parserVars, multiVars, extractorVars, cacheVars, ipcVars,
                 factoryVars, svDone>>

\* the chat call of task i resolves: parseProfessionalResponse; when it was
\* the last one pending, Promise.all resolves and the solutions are merged
\* (a single task returns its own solution)
SolveChatResolved(i, content) ==
  /\ i \in 1..Len(svCalls)
  /\ svCalls[i].state = "pending"
  /\ svCalls' = [svCalls EXCEPT ![i].state = "resolved",
                                ![i].solution =
                                   parseProfessionalResponse(content, solveTasks(exResult)[i])]
  /\ svDone' = Append(svDone, i)
  /\ IF svResult.pc = "running" /\ \A j \in 1..Len(svCalls') : svCalls'[j].state = "resolved"
     THEN svResult' =
            [pc |-> "returned",
             value |-> IF Len(exResult.multipleTasks) > 0
                       THEN combined([j \in 1..Len(svCalls') |-> svCalls'[j].solution])
                       ELSE svCalls'[1].solution]
     ELSE UNCHANGED svResult
  /\ UNCHANGED <<imageVars, pipelineVars, parserVars, multiVars, extractorVars, cacheVars, ipcVars,
                 factoryVars>>

\* the chat call of task i rejects: Promise.all rejects with the first
\* rejection, the other calls stay in flight
SolveChatRejected(i) ==
  /\ i \in 1..Len(svCalls)
  /\ svCalls[i].state = "pending"
  /\ svCalls' = [svCalls EXCEPT ![i].state = "rejected"]
  /\ svDone' = Append(svDone, i)
  /\ svResult' = IF svResult.pc = "running" THEN [svResult EXCEPT !.pc = "rejected"]
                 ELSE svResult
  /\ UNCHANGED <<imageVars, pipelineVars, parserVars, multiVars, extractorVars, cacheVars, ipcVars,
                 factoryVars>>

\* ------------------------------------------- formatImageForProvider, chat
\* A content part is a record of type, text, image and url, the fields it
\* does not have empty. A text is a sequence of tokens, and so is a URL: the
\* data URL of the code is the four tokens below.
NoPart == [type |-> "", text |-> <<>>, image |-> "", url |-> <<>>]
TextPart(t) == [NoPart EXCEPT !.type = "text", !.text = t]

\* BaseProvider.formatImageForProvider, which OpenRouterProvider and
\* GeminiProvider (by an override of the same text) use, and OllamaProvider's
formatImageForProvider(adapter, base64Image) ==
  IF adapter = "ollama"
  THEN [NoPart EXCEPT !.type = "image", !.image = base64Image]
  ELSE [NoPart EXCEPT !.type = "image_url",
                      !.url = <<"data:image/", "png", ";base64,", base64Image>>]

\* JSON.stringify of a content array: one string
stringify(content) ==
  <<"[">> \o Concat([i \in 1..Len(content) |->
                       <<"{type:", content[i].type, ",">> \o content[i].text
                         \o <<content[i].image>> \o content[i].url \o <<"}">>])
        \o <<"]">>

\* url.match(/^data:image\/([a-zA-Z]+);base64,(.+)$/)
dataUrlMatches(url) ==
  /\ Len(url) = 4
  /\ url[1] = "data:image/"
  /\ url[2] \in {"png", "jpeg"}
  /\ url[3] = ";base64,"
  /\ url[4] # ""

\* a part of a request message: kind string is a string content, the other
\* kinds are the elements of a parts or content array
NoRequestPart == [kind |-> "", text |-> <<>>, url |-> <<>>, mimeType |-> "", data |-> ""]

\* the parts GeminiProvider.chat pushes for one content part
geminiParts(part) ==
  IF part.type = "text" /\ part.text # <<>>
  THEN << [NoRequestPart EXCEPT !.kind = "text", !.text = part.text] >>
  ELSE IF part.type = "image_url" /\ part.url # <<>> /\ dataUrlMatches(part.url)
  THEN << [NoRequestPart EXCEPT !.kind = "inlineData",
                                !.mimeType = "image/" \o part.url[2],
                                !.data = part.url[4]] >>
  ELSE <<>>

\* the user message in the request each adapter's chat builds (options and
\* the system message left out)
chatRequest(adapter, content) ==
  IF adapter = "ollama"
  THEN [role |-> "user", images |-> <<>>,
        parts |-> << [NoRequestPart EXCEPT !.kind = "string", !.text = stringify(content)] >>]
  ELSE IF adapter = "gemini"
  THEN [role |-> "user", images |-> <<>>,
        parts |-> Concat([i \in 1..Len(content) |-> geminiParts(content[i])])]
  ELSE [role |-> "user", images |-> <<>>,
        parts |-> [i \in 1..Len(content) |->
                     [NoRequestPart EXCEPT !.kind = content[i].type,
                                           !.text = content[i].text,
                                           !.url = content[i].url]]]

NoRequest == [role |-> "", images |-> <<>>, parts |-> <<>>]

ImageIdle ==
  /\ imMessage = [adapter |-> "", content |-> <<>>]
  /\ imRequest = NoRequest

\* provider.chat up to its request to the backend
ImageChatCall ==
  /\ imRequest = NoRequest
  /\ imRequest' = chatRequest(imMessage.adapter, imMessage.content)
  /\ UNCHANGED <<pipelineVars, parserVars, multiVars, extractorVars, cacheVars, ipcVars,
                 factoryVars, solveVars, imMessage>>

PendingInfo ==
  [kind |-> "pending", value |-> <<>>, problem_statement |-> <<>>,
   raw_response |-> <<>>, parse_error |-> FALSE]

ParserIdle == piContent = <<>> /\ piResult = PendingInfo
\* parseMultiTaskResponse has not returned
PendingMulti ==
  [returned |-> FALSE, code |-> <<>>, thoughts |-> <<>>,
   time_complexity |-> <<>>, space_complexity |-> <<>>]

MultiIdle == mtText = <<>> /\ mtResult = PendingMulti
\* parseExtraction has not returned
PendingExtraction ==
  [returned |-> FALSE, type |-> "", rawText |-> <<>>, keys |-> {}, multipleTasks |-> <<>>]

ExtractorIdle == exText = <<>> /\ exResult = PendingExtraction
PureIdle == ParserIdle /\ MultiIdle /\ ExtractorIdle /\ CacheIdle /\ IpcIdle /\ FactoryIdle /\ SolveIdle /\ ImageIdle

\* the pipeline at rest, for the specifications of the parsers alone
PipelineIdle == PipelineInit /\ config.apiProvider = "ollama"

vars == <<pipelineVars, pureVars>>

\* the configurations a config-updated event can carry
ConfigChoices ==
  [apiProvider : ProviderTypes, extractionModel : {"e1"}, solutionModel : SolutionModels]

\* the call of parseProblemInfoResponse on piContent
ParseCall ==
  /\ piResult = PendingInfo
  /\ piResult' = parseProblemInfoResponse(piContent)
  /\ UNCHANGED <<imageVars, solveVars, pipelineVars, piContent, multiVars, extractorVars, cacheVars, ipcVars, factoryVars>>

\* the call of parseMultiTaskResponse on mtText
MultiCall ==
  /\ ~mtResult.returned
  /\ mtResult' = parseMultiTaskResponse(mtText)
  /\ UNCHANGED <<imageVars, solveVars, pipelineVars, parserVars, mtText, extractorVars, cacheVars, ipcVars, factoryVars>>

\* the call of parseExtraction on exText
ExtractionCall ==
  /\ ~exResult.returned
  /\ exResult' = parseExtraction(exText)
  /\ UNCHANGED <<imageVars, solveVars, pipelineVars, parserVars, multiVars, exText, cacheVars, ipcVars, factoryVars>>

\* Spec: overlapping runs and cancellation; one keyed and the key-less
\* backend, which answer with an object or with null, or fail with 401
SpecTexts == { <<"FENCEJSON", "{", "m", "}", "FENCE">>, <<"null">> }

Init ==
  /\ PipelineInit
  /\ config.apiProvider \in {"ollama", "gemini"}
  /\ PureIdle

Next ==
  \/ \E r \in 1..MaxRuns, queueLen \in {0, 1} : StartRun(r, queueLen)
  \/ \E r \in 1..MaxRuns, ok \in BOOLEAN : ValidateDone(r, ok)
  \/ \E r \in 1..MaxRuns : LoadDone(r)
  \/ \E r \in 1..MaxRuns, text \in SpecTexts : ExtractResolved(r, text)
  \/ \E r \in 1..MaxRuns : ExtractRejected(r, 401, FALSE)
  \/ \E r \in 1..MaxRuns : SolveLangDone(r)
  \/ \E r \in 1..MaxRuns : SolveResolved(r)
  \/ \E r \in 1..MaxRuns : SolveRejected(r, 401, FALSE)
  \/ cancelOngoingRequests

Spec == Init /\ [][Next]_vars

\* SpecReplies: every adapter, every reply of the backend
InitReplies == PipelineInit /\ PureIdle

NextReplies ==
  \/ \E r \in 1..MaxReplyRuns, queueLen \in {0, 1} : StartRun(r, queueLen)
  \/ \E r \in 1..MaxReplyRuns, ok \in BOOLEAN : ValidateDone(r, ok)
  \/ \E r \in 1..MaxReplyRuns : LoadDone(r)
  \/ \E r \in 1..MaxReplyRuns, text \in ExtractTexts : ExtractResolved(r, text)
  \/ \E r \in 1..MaxReplyRuns, status \in FailStatuses, withResponse \in BOOLEAN :
       ExtractRejected(r, status, withResponse)
  \/ \E r \in 1..MaxReplyRuns : SolveLangDone(r)
  \/ \E r \in 1..MaxReplyRuns : SolveResolved(r)
  \/ \E r \in 1..MaxReplyRuns, status \in FailStatuses, withResponse \in BOOLEAN :
       SolveRejected(r, status, withResponse)

SpecReplies == InitReplies /\ [][NextReplies]_vars

\* SpecConfig: runs while the configuration changes
NextConfig ==
  \/ \E r \in 1..MaxConfigRuns, queueLen \in {0, 1} : StartRun(r, queueLen)
  \/ \E r \in 1..MaxConfigRuns, ok \in BOOLEAN : ValidateDone(r, ok)
  \/ \E r \in 1..MaxConfigRuns : LoadDone(r)
  \/ \E r \in 1..MaxConfigRuns : ExtractResolved(r, <<"{", "m", "}">>)
  \/ \E r \in 1..MaxConfigRuns : ExtractRejected(r, 401, FALSE)
  \/ \E r \in 1..MaxConfigRuns : SolveLangDone(r)
  \/ \E r \in 1..MaxConfigRuns : SolveResolved(r)
  \/ \E r \in 1..MaxConfigRuns : SolveRejected(r, 401, FALSE)
  \/ \E newConfig \in ConfigChoices : ConfigUpdated(newConfig)

SpecConfig == InitReplies /\ [][NextConfig]_vars

\* SpecParse: parseProblemInfoResponse on every text built from up to MaxFrags
\* of these fragments (prose, whitespace, fences, stray braces, objects, ...)
ParseFragments ==
  { <<"w">>, <<"_">>, <<"FENCEJSON", "_">>, <<"_", "FENCE">>, <<"FENCE">>,
    <<"{">>, <<"}">>, <<"{", "m", "}">>, <<"{", "m", "{", "}", "}">>,
    <<"{", "mf", "}">>, <<"{", "w", "}">>, <<"null">> }

InitParse ==
  /\ PipelineIdle
  /\ piContent \in { Concat(fs) : fs \in SeqsUpTo(ParseFragments, MaxFrags) }
  /\ piResult = PendingInfo
  /\ MultiIdle
  /\ ExtractorIdle
  /\ CacheIdle
  /\ IpcIdle
  /\ FactoryIdle
  /\ SolveIdle
  /\ ImageIdle

NextParse == ParseCall

SpecParse == InitParse /\ [][NextParse]_vars

\* SpecMulti: parseMultiTaskResponse on every text built from up to MaxSegs of
\* these segments
MultiSegments ==
  { <<"w", "nl">>,
    <<"FENCE", "w", "nl", "c1", "nl", "FENCE", "nl">>,
    <<"FENCE", "nl", "c2", "nl", "FENCE", "nl">>,
    <<"FENCE", "c1", "_", "c2", "FENCE">>,
    <<"TIME", ":", "_", "w", "nl">>,
    <<"TIME", "_", "c1">>,
    <<"SPACE", ":", "_", "w", "nl">>,
    <<"THOUGHTS", ":", "nl", "-", "_", "w", "nl">>,
    <<"THOUGHTS", ":", "_", "w", "nl">>,
    <<"##", "_", "w", "nl">>,
    <<"nl">>,
    <<"FENCE">> }

InitMulti ==
  /\ PipelineIdle
  /\ ParserIdle
  /\ mtText \in { Concat(ss) : ss \in SeqsUpTo(MultiSegments, MaxSegs) }
  /\ mtResult = PendingMulti
  /\ ExtractorIdle
  /\ CacheIdle
  /\ IpcIdle
  /\ FactoryIdle
  /\ SolveIdle
  /\ ImageIdle

NextMulti == MultiCall

SpecMulti == InitMulti /\ [][NextMulti]_vars

\* SpecExtract: parseExtraction on every text built from up to MaxParts of
\* these parts
ExtractParts ==
  { <<"w">>, <<"_">>, <<"nl">>, <<"rev">>, <<"sql">>, <<"par">>,
    <<"TASK", "_", "1", ":", "_", "w">>,
    <<"TASK", "_", "2", ":", "_", "w">>,
    <<"TASK", "_", "1">>,
    <<"1", ".", "_", "w">>,
    <<"2", ".", "_", "w">> }

InitExtract ==
  /\ PipelineIdle
  /\ ParserIdle
  /\ MultiIdle
  /\ exText \in { Concat(ss) : ss \in SeqsUpTo(ExtractParts, MaxParts) }
  /\ exResult = PendingExtraction
  /\ CacheIdle
  /\ IpcIdle
  /\ FactoryIdle
  /\ SolveIdle
  /\ ImageIdle

NextExtract == ExtractionCall

SpecExtract == InitExtract /\ [][NextExtract]_vars

\* SpecSolve: the extraction reply is parsed, then the solve stage runs on
\* what parseExtraction gave: every text of up to MaxTasks of these parts
SolveParts ==
  { <<"w">>, <<"rev">>, <<"sql">>, <<"TASK", "_", "1">>,
    <<"1", ".", "_", "w", "nl">>, <<"2", ".", "_", "rev", "nl">>, <<"2", ".", "_", "sql", "nl">> }

\* what the backend answers a solve request with
SolveReplies ==
  { <<"FENCE", "w", "nl", "c1", "FENCE", "nl", "TIME", ":", "_", "O(">>,
    <<"c2">>,
    <<"FENCE", "c2", "FENCE", "nl", "space", "_", "O(", "nl", "time", "_", "O(">> }

InitSolve ==
  /\ PipelineIdle
  /\ ParserIdle
  /\ MultiIdle
  /\ exText \in { Concat(ss) : ss \in SeqsUpTo(SolveParts, MaxTasks) }
  /\ exResult = PendingExtraction
  /\ CacheIdle
  /\ IpcIdle
  /\ FactoryIdle
  /\ SolveIdle
  /\ ImageIdle

NextSolve ==
  \/ ExtractionCall
  \/ generateSolutionFromExtracted
  \/ \E i \in 1..MaxTasks, content \in SolveReplies : SolveChatResolved(i, content)
  \/ \E i \in 1..MaxTasks : SolveChatRejected(i)

SpecSolve == InitSolve /\ [][NextSolve]_vars

\* SpecImage: a user message of up to MaxImageParts parts, texts and the
\* images the chosen adapter formatted, is translated by that adapter's chat
ImageAdapters == {"ollama", "gemini", "openrouter"}
Base64Images == {"b1", "b2"}

ContentParts(adapter) ==
  { TextPart(<<"t">>) } \cup { formatImageForProvider(adapter, b) : b \in Base64Images }

InitImage ==
  /\ PipelineIdle
  /\ ParserIdle
  /\ MultiIdle
  /\ ExtractorIdle
  /\ CacheIdle
  /\ IpcIdle
  /\ FactoryIdle
  /\ SolveIdle
  /\ \E adapter \in ImageAdapters :
       \E content \in SeqsUpTo(ContentParts(adapter), MaxImageParts) :
         imMessage = [adapter |-> adapter, content |-> content]
  /\ imRequest = NoRequest

NextImage == ImageChatCall

SpecImage == InitImage /\ [][NextImage]_vars

\* SpecFactory: the registry under registerProvider, createProvider and
\* getAllProvidersWithDetails
FactoryOutcomes == { [ok |-> TRUE, models |-> <<"a">>], [ok |-> FALSE, models |-> <<>>] }

InitFactory ==
  /\ PipelineIdle
  /\ ParserIdle
  /\ MultiIdle
  /\ ExtractorIdle
  /\ CacheIdle
  /\ IpcIdle
  /\ FactoryIdle
  /\ SolveIdle
  /\ ImageIdle

NextFactory ==
  \/ \E type \in RegisterTypes, providerClass \in RegisterClasses :
       registerProvider(type, providerClass)
  \/ \E type \in ProviderTypes, apiKey \in ApiKeys : createProvider(type, apiKey)
  \/ getAllProvidersWithDetails
  \/ \E outcome \in FactoryOutcomes : ModelsSettled(outcome)

SpecFactory == InitFactory /\ [][NextFactory]_vars

\* SpecIpc: runs requested over IPC, with every adapter and every answer of
\* the backend to the key check of the handler
InitIpc ==
  /\ PipelineInit
  /\ ParserIdle
  /\ MultiIdle
  /\ ExtractorIdle
  /\ CacheIdle
  /\ IpcIdle
  /\ FactoryIdle
  /\ SolveIdle
  /\ ImageIdle

NextIpc ==
  \/ \E h \in IpcCalls : IpcProcessScreenshots(h)
  \/ \E h \in IpcCalls, answer \in BackendAnswers : IpcKeyInvalid(h, answer)
  \/ \E h \in IpcCalls, answer \in BackendAnswers, r \in IpcCalls, queueLen \in {0, 1} :
       IpcKeyValid(h, answer, r, queueLen)
  \/ \E r \in IpcCalls, ok \in BOOLEAN : ValidateDone(r, ok)
  \/ \E r \in IpcCalls : LoadDone(r)
  \/ \E r \in IpcCalls, text \in SpecTexts : ExtractResolved(r, text)
  \/ \E r \in IpcCalls : ExtractRejected(r, 401, FALSE)
  \/ \E r \in IpcCalls : SolveLangDone(r)
  \/ \E r \in IpcCalls : SolveResolved(r)
  \/ \E r \in IpcCalls : SolveRejected(r, 401, FALSE)

SpecIpc == InitIpc /\ [][NextIpc]_vars

\* SpecCache: getAvailableModels calls on one adapter instance while time
\* passes and the listing request succeeds or fails
InitCache ==
  /\ PipelineIdle
  /\ ParserIdle
  /\ MultiIdle
  /\ ExtractorIdle
  /\ adapterType \in RegisteredProviders
  /\ now = 0
  /\ modelsCache = NullCache
  /\ lastModelsFetch = 0
  /\ storedAt = -1
  /\ calls = [c \in Calls |-> IdleCall]
  /\ nFetches = 0
  /\ IpcIdle
  /\ FactoryIdle
  /\ SolveIdle
  /\ ImageIdle

NextCache ==
  \/ Tick
  \/ \E c \in Calls : getAvailableModels(c)
  \/ \E c \in Calls, outcome \in ListingOutcomes : FetchDone(c, outcome)

SpecCache == InitCache /\ [][NextCache]_vars

\* ===================================================================== claims
\* a run is in flight between its start and its finally block
InFlight(r) == pc[r] \notin {"idle", "done"}

\* a later run has been started
Superseded(r) == \E r2 \in Runs : r2 > r /\ pc[r2] # "idle"

\* C1: once cancelOngoingRequests has aborted the controller of a run in
\* flight, that run sends no further event to the window and does not store a
\* problem info any more (its partial result stays discarded).
C1_CancelledRunIsSilent ==
  [][\A r \in Runs :
       r \in aborted =>
         /\ events'[r] = events[r]
         /\ (pc'[r] # pc[r] => problemInfo' = problemInfo)]_vars

\* C2: at most one run is live: once a later processScreenshots call has
\* started, an earlier run issues no chat call and sends no event any more.
C2_OnlyNewestRunActs ==
  [][\A r \in Runs :
       Superseded(r) => events'[r] = events[r] /\ chatLog'[r] = chatLog[r]]_vars

\* C3: a run whose extraction chat call was rejected with HTTP 401 reports the
\* invalid-credentials message in its error event and issues no solve call,
\* whichever adapter is in use.
C3_Extract401IsInvalidCredentials ==
  \A r \in Runs :
    (pc[r] = "done" /\ extractReply[r] = [kind |-> "error", status |-> 401]) =>
      /\ \E i \in 1..Len(events[r]) :
           events[r][i] = Event("INITIAL_SOLUTION_ERROR", MsgInvalidKey)
      /\ \A i \in 1..Len(chatLog[r]) : chatLog[r][i].stage # "solve"

\* C4: whatever text the extraction chat call returned, the run does not end
\* without having issued the solve-stage chat call.
C4_AnyExtractionTextReachesSolve ==
  \A r \in Runs :
    (pc[r] = "done" /\ extractReply[r].kind = "text") =>
      \E i \in 1..Len(chatLog[r]) : chatLog[r][i].stage = "solve"

\* the call has returned
Parsed == piResult # PendingInfo

\* s[i..j] is the text of a JSON object
ObjectAt(s, i, j) ==
  /\ i <= j
  /\ ~JsonThrows(SubSeq(s, i, j))
  /\ JsonValue(SubSeq(s, i, j)).kind = "object"
  /\ s[i] = "{"
  /\ s[j] = "}"

\* ... and no larger span around it is one
MaximalObjectAt(s, i, j) ==
  /\ ObjectAt(s, i, j)
  /\ \A i2 \in 1..i, j2 \in j..Len(s) : ObjectAt(s, i2, j2) => i2 = i /\ j2 = j

\* no span of s is well-formed JSON
NoJsonIn(s) == \A i \in 1..Len(s), j \in 1..Len(s) : i <= j => JsonThrows(SubSeq(s, i, j))

NoBraces(s) == \A i \in 1..Len(s) : s[i] \notin {"{", "}"}

\* C5: for an input that contains no well-formed JSON the call returns the
\* fallback record: problem_statement is the cleaned input (fence markers
\* removed, trimmed), _parse_error is true, _raw_response is the input.
C5_FallbackKeepsCleanedInput ==
  (Parsed /\ NoJsonIn(piContent) /\ NoJsonIn(StripFences(piContent))) =>
    piResult = FallbackInfo(Trim(StripFences(piContent)), piContent)

FencePositions(s) ==
  LET F == IndicesIn(s, {"FENCE"})
  IN [k \in 1..Cardinality(F) |-> CHOOSE p \in F : Cardinality({ q \in F : q <= p }) = k]

\* the number of fenced code blocks: fences pair up in order of appearance
BlockCount(s) == Len(FencePositions(s)) \div 2

\* what stands between the fences of block i
BlockInner(s, i) ==
  SubSeq(s, FencePositions(s)[2 * i - 1] + 1, FencePositions(s)[2 * i] - 1)

\* the body of block i: the inner text after the language tag, trimmed
BlockBody(s, i) ==
  LET inner == BlockInner(s, i)
  IN Trim(SubSeq(inner, SkipWhile(inner, 1, WordTokens), Len(inner)))

HeadedBlocks(s) ==
  JoinWith([i \in 1..BlockCount(s) |-> <<taskTitle(i), "nl", "nl">> \o BlockBody(s, i)],
           <<"nl", "nl", "nl">>)

EndsWithLine(s, label) ==
  /\ Len(s) >= 5
  /\ SubSeq(s, Len(s) - 4, Len(s)) = <<label, ":", "_", "w", "nl">>

\* C8 as stated: a field is its extracted value or its default whatever the
\* other sections are; without a time label time_complexity is "O(n)", without
\* a space label space_complexity is "O(1)".
C8_ShortDefaults ==
  mtResult.returned =>
    /\ ~Has(mtText, "TIME") => mtResult.time_complexity = <<"O(n)">>
    /\ ~Has(mtText, "SPACE") => mtResult.space_complexity = <<"O(1)">>

\* C8 as amended: without a time label time_complexity is the default
\* "O(n) - Lineynaya slozhnost", without a space label space_complexity is
\* "O(1) - Konstantnaya pamyat", without a thoughts label thoughts is its
\* default, whatever the other sections are; and a complexity line that ends
\* the text is extracted whatever the other sections are.
C8_FieldsIndependent ==
  mtResult.returned =>
    /\ ~Has(mtText, "TIME") =>
         mtResult.time_complexity = <<"O(n)", "_", "-", "_", "Lineynaya", "_", "slozhnost">>
    /\ ~Has(mtText, "SPACE") =>
         mtResult.space_complexity = <<"O(1)", "_", "-", "_", "Konstantnaya", "_", "pamyat">>
    /\ ~Has(mtText, "THOUGHTS") => mtResult.thoughts = << <<"Reshenie optimizirovano">> >>
    /\ EndsWithLine(mtText, "TIME") =>
         /\ mtResult.time_complexity[1] = taskLabel(1)
         /\ mtResult.time_complexity[Len(mtResult.time_complexity)] = "w"
    /\ EndsWithLine(mtText, "SPACE") =>
         /\ mtResult.space_complexity[1] = taskLabel(1)
         /\ mtResult.space_complexity[Len(mtResult.space_complexity)] = "w"

\* a time line was extracted from a text without code block, thoughts or space
\* line, and these three fields are their defaults
C8_Witness ==
  /\ mtText = <<"w", "nl", "TIME", ":", "_", "w", "nl">>
  /\ mtResult.returned
  /\ mtResult.code = mtText
  /\ mtResult.time_complexity = <<taskLabel(1), "_", "w">>
  /\ mtResult.space_complexity = DefaultSpaceComplexity
  /\ mtResult.thoughts = DefaultThoughts

\* ----------------------------------------------------------------- C9, C10
\* the types the specification lists for an ExtractedContent
TypeDomain == {"coding_task", "code_review", "sql_task", "multithreading_task", "mixed"}

\* C9: parseExtraction returns, for every text, an ExtractedContent whose
\* rawText is the text and whose type is one of coding_task, code_review,
\* sql_task, multithreading_task, mixed; so is the type of every element of
\* multipleTasks.
C9_TypeInDomain ==
  exResult.returned =>
    /\ exResult.rawText = exText
    /\ exResult.type \in TypeDomain
    /\ \A i \in 1..Len(exResult.multipleTasks) : exResult.multipleTasks[i].type \in TypeDomain

\* the numbered task markers of a text: the word Task / Zadacha and a number
NumberedMarkers(s) ==
  { i \in 1..Len(s) :
      /\ s[i] = "TASK"
      /\ SkipWhile(s, i + 1, WhiteTokens) <= Len(s)
      /\ s[SkipWhile(s, i + 1, WhiteTokens)] \in DigitTokens }

\* C10: a text with exactly k >= 2 numbered task markers, on one line or on
\* several, is classified mixed and split into exactly k elements, none mixed.
C10_OneElementPerMarker ==
  (exResult.returned /\ Cardinality(NumberedMarkers(exText)) >= 2) =>
    /\ exResult.type = "mixed"
    /\ Len(exResult.multipleTasks) = Cardinality(NumberedMarkers(exText))
    /\ \A i \in 1..Len(exResult.multipleTasks) : exResult.multipleTasks[i].type # "mixed"

\* ----------------------------------------------------------------- C11, C12
\* call c is made in this step
CallMade(c) == calls[c].pc = "idle" /\ calls'[c].pc # "idle"

\* C11: once a model list has been fetched and stored, every later call made
\* while less than the TTL has elapsed since that store returns the stored list
\* without invoking fetchFn, and a call made after the TTL has elapsed invokes
\* fetchFn once.
C11_CacheServesWithinTtlOfStore ==
  [][\A c \in Calls :
       (CallMade(c) /\ storedAt # -1) =>
         IF now - storedAt < cacheTtl
           THEN /\ calls'[c].pc = "returned"
                /\ calls'[c].models = modelsCache.models
                /\ nFetches' = nFetches
         ELSE nFetches' = nFetches + 1]_vars

\* C12: getAvailableModels never rejects, whatever adapter the instance is of
\* and however the listing request ends.
C12_ModelsNeverReject == \A c \in Calls : calls[c].pc # "rejected"

\* ---------------------------------------------------------------------- C13
\* C13: validateApiKey never throws; for the key-less backend the key check
\* passes on both entry paths (the check of processScreenshots and the one of
\* the IPC handler), so a key-less run is never answered with API_KEY_INVALID.
C13_KeylessNeverInvalid ==
  config.apiProvider = "ollama" =>
    /\ \A h \in IpcCalls : \A i \in 1..Len(ipcEvents[h]) : ipcEvents[h][i].ev # "API_KEY_INVALID"
    /\ \A r \in Runs : \A i \in 1..Len(events[r]) : events[r][i].ev # "API_KEY_INVALID"

\* ---------------------------------------------------------------------- C14
\* C14: getAllProvidersWithDetails always returns, with one entry per
\* registered provider in the order of the registry; an adapter failing at
\* construction, getProviderInfo or getAvailableModels only empties its own
\* entry.
C14_EveryProviderReported ==
  /\ details.pc # "rejected"
  /\ details.pc = "returned" =>
       /\ Len(details.result) >= Len(InitialProviders)
       /\ \A k \in 1..Len(details.result) : details.result[k].type = providers[k].type

\* ---------------------------------------------------------------------- C15
\* every registration there has been for an id: the static ones, then the
\* registerProvider calls
AllRegistrations == InitialProviders \o registrations
RegistrationsOf(type) == { i \in 1..Len(AllRegistrations) : AllRegistrations[i].type = type }
LastRegistered(type) == AllRegistrations[SetMax(RegistrationsOf(type))].cls

\* C15: after any sequence of registerProvider calls, createProvider(id, config)
\* hands the config to the class most recently registered for id and returns
\* the new instance (a constructor that throws is that class's own failure);
\* for an id never registered, which includes the ProviderType values without
\* adapter, it raises Unknown provider type and constructs nothing.
C15_CreateUsesLatestRegistration ==
  [][nCreates' = nCreates + 1 =>
       IF RegistrationsOf(created'.type) # {}
       THEN /\ created'.cls = LastRegistered(created'.type)
            /\ \/ /\ created'.kind = "instance"
                  /\ created'.id = nInstances + 1
                  /\ nInstances' = nInstances + 1
               \/ /\ created'.kind = "constructor threw"
                  /\ created'.cls \in ExtensionClasses
                  /\ nInstances' = nInstances
       ELSE /\ created'.kind = "unknown provider type"
            /\ nInstances' = nInstances]_vars

\* an id registered twice with different classes, and an instance created for it
C15_Witness ==
  /\ created.kind = "instance"
  /\ Cardinality(RegistrationsOf(created.type)) > 2
  /\ \E i \in RegistrationsOf(created.type) : AllRegistrations[i].cls # created.cls
  /\ created.cls = LastRegistered(created.type)

\* ---------------------------------------------------------------------- C16
EventNames(r) == { events[r][i].ev : i \in 1..Len(events[r]) }

C17_SolveUsesStartSnapshot ==
  \A r \in Runs :
    (Len(chatLog[r]) >= 2 /\ chatLog[r][1].provider = runInput[r].provider) =>
      /\ chatLog[r][2].provider = runInput[r].provider
      /\ chatLog[r][2].model = runInput[r].config.solutionModel

\* ---------------------------------------------------------------------- C18
\* the events the result sink takes as terminal: extracted content, solution,
\* typed failure
TerminalEvents ==
  {"PROBLEM_EXTRACTED", "SOLUTION_SUCCESS", "NO_SCREENSHOTS", "API_KEY_INVALID",
   "INITIAL_SOLUTION_ERROR"}
TerminalCount(r) == Cardinality({ i \in 1..Len(events[r]) : events[r][i].ev \in TerminalEvents })

\* C18: every run delivers exactly one terminal event: never two while it runs,
\* and one when it has ended, also when it fails after the extraction or is
\* cancelled or superseded.
C18_ExactlyOneTerminalEvent ==
  \A r \in Runs :
    /\ TerminalCount(r) <= 1
    /\ pc[r] = "done" => TerminalCount(r) = 1

\* ---------------------------------------------------------------------- C19
\* C19: for every adapter, the error chat raises for a non-success HTTP status
\* carries that status where the error classifier of the orchestrator reads it
\* (error.response.status).
C19_ChatErrorCarriesStatus ==
  \A r \in Runs :
    runInput[r].raised.status > 0 =>
      runInput[r].raised.error.responseStatus = runInput[r].raised.status

\* ---------------------------------------------------------------------- C20
\* the class of the taxonomy a message shown for a failure stands for
FailureClass(msg) ==
  IF msg \in {MsgInvalidKey, <<"Invalid API key.", 0>>} THEN "InvalidCredentials"
  ELSE IF msg \in {MsgRateLimit, <<"API rate limit exceeded.", 0>>} THEN "RateLimited"
  ELSE IF msg = MsgServerError THEN "ServerError"
  ELSE IF msg \in {MsgCanceledByUser, <<"Processing was canceled.", 0>>} THEN "Cancelled"
  ELSE "Unknown"

\* the class the taxonomy gives an error for the status it carries
ExpectedClass(error) ==
  IF error.isCancel THEN "Cancelled"
  ELSE IF error.responseStatus = 401 THEN "InvalidCredentials"
  ELSE IF error.responseStatus = 429 THEN "RateLimited"
  ELSE IF error.responseStatus \in 500..599 THEN "ServerError"
  ELSE "Unknown"

\* C20: in both stages, a run whose chat call failed reports the class of the
\* status the error carries: 401 InvalidCredentials, 429 RateLimited, 500..599
\* ServerError, a cancelled request Cancelled, anything else Unknown with the
\* message of the error.
C20_FailureClassifiedByStatus ==
  \A r \in Runs :
    (pc[r] = "done" /\ runInput[r].raised # NotRaised) =>
      \E i \in 1..Len(events[r]) :
        /\ events[r][i].ev = "INITIAL_SOLUTION_ERROR"
        /\ FailureClass(events[r][i].msg) = ExpectedClass(runInput[r].raised.error)
        /\ FailureClass(events[r][i].msg) = "Unknown" =>
             events[r][i].msg = runInput[r].raised.error.message

\* ---------------------------------------------------------------------- C21
\* the numbered task markers that signal several tasks: the word Task /
\* Zadacha with a number, or the first item of a numbered list
HasTaskMarker(s) ==
  \/ HasNumberedTask(s)
  \/ \E i \in 1..(Len(s) - 1) : s[i] = "1" /\ s[i + 1] = "."

\* the type the priority order gives a text, first matching rule first
PriorityType(s) ==
  IF Has(s, "rev") THEN "code_review"
  ELSE IF Has(s, "sql") THEN "sql_task"
  ELSE IF Has(s, "par") THEN "multithreading_task"
  ELSE IF HasTaskMarker(s) THEN "mixed"
  ELSE "coding_task"

\* the concurrency type under the name the specification gives it
TypeName(type) == IF type = "multithreading" THEN "multithreading_task" ELSE type

\* C21: the type parseExtraction returns follows the priority order: review
\* marker, then SQL marker, then concurrency marker, then numbered task
\* markers (mixed), then coding_task; the first rule that matches wins.
C21_FirstMatchingRuleWins ==
  exResult.returned => TypeName(exResult.type) = PriorityType(exText)

\* ---------------------------------------------------------------------- C22
\* the payload key an ExtractedContent of a type carries
PayloadOf(type) ==
  IF type = "code_review" THEN "codeReview"
  ELSE IF type = "sql_task" THEN "sqlTask"
  ELSE "codingTask"

\* C22: multipleTasks, when present, is non-empty and each element is a
\* non-mixed ExtractedContent with the payload of its own type; a text with a
\* multi-task signal but no numbered boundary is returned as one task, not as
\* mixed with an empty list.
C22_TasksNonEmptyAndWellFormed ==
  (exResult.returned /\ ("multipleTasks" \in exResult.keys \/ exResult.type = "mixed")) =>
    /\ Len(exResult.multipleTasks) > 0
    /\ \A i \in 1..Len(exResult.multipleTasks) :
         /\ exResult.multipleTasks[i].type # "mixed"
         /\ exResult.multipleTasks[i].keys = {PayloadOf(exResult.multipleTasks[i].type)}

\* ---------------------------------------------------------------------- C23
\* C23: classifying the rawText of a non-mixed ExtractedContent again gives
\* the type it has, for the returned content and for every element of its
\* multipleTasks (an element the detector itself labels multiple_tasks is left
\* out here).
C23_ReclassifyKeepsType ==
  exResult.returned =>
    /\ exResult.type # "mixed" => parseExtraction(exResult.rawText).type = exResult.type
    /\ \A i \in 1..Len(exResult.multipleTasks) :
         exResult.multipleTasks[i].type \notin {"mixed", "multiple_tasks"} =>
           parseExtraction(exResult.multipleTasks[i].rawText).type
             = exResult.multipleTasks[i].type

\* ---------------------------------------------------------------------- C24
\* C24: a fetchFn that rejects leaves modelsCache and lastModelsFetch as they
\* were and the call ends rejected; a call made while no successful fetch is
\* stored, or none younger than the TTL, invokes fetchFn.
C24_NoNegativeCaching ==
  [][\A c \in Calls :
       /\ (calls[c].pc = "fetch" /\ calls'[c].pc = "rejected") =>
            /\ modelsCache' = modelsCache
            /\ lastModelsFetch' = lastModelsFetch
       /\ (CallMade(c) /\ (storedAt = -1 \/ now - storedAt >= cacheTtl)) =>
            /\ calls'[c].pc = "fetch"
            /\ nFetches' = nFetches + 1]_vars

\* the first call was rejected and the second has invoked fetchFn again
C24_Witness ==
  /\ calls[1].pc = "rejected"
  /\ calls[2].pc = "fetch"
  /\ nFetches = 2
  /\ modelsCache = NullCache

\* ---------------------------------------------------------------------- C25
\* C25: the solve stage issues as many chat calls as there are tasks, k for
\* mixed content with k sub-tasks and one for any other content, all of them
\* before any completes and each with the solution model; a code_review task
\* gets the review prompt, any other task the solve prompt.
C25_OneSolveCallPerTask ==
  svResult.pc # "idle" =>
    /\ Len(svCalls) = IF exResult.type = "mixed" THEN Len(exResult.multipleTasks) ELSE 1
    /\ \A i \in 1..Len(svCalls) :
         /\ svCalls[i].model = config.solutionModel
         /\ svCalls[i].prompt.kind =
              IF solveTasks(exResult)[i].type = "code_review" THEN "CODE_REVIEW_PROMPT"
              ELSE "SOLUTION_PROMPT"

\* ---------------------------------------------------------------------- C26
\* C26: the merged result of mixed content lists the sub-task results in task
\* order whatever order the calls completed in: the code is the codes in task
\* order with an ordinal separator for each task, the thoughts are the
\* flattened thoughts, the complexities the concatenated complexity strings.
C26_MergedInTaskOrder ==
  (svResult.pc = "returned" /\ Len(exResult.multipleTasks) > 0) =>
    LET n == Len(svCalls)
        layout == {"nl"} \cup { taskTitle(i) : i \in 1..n }
    IN /\ Without(svResult.value.code, layout)
            = Without(Concat([i \in 1..n |-> svCalls[i].solution.code]), layout)
       /\ \A i \in 1..n : Has(svResult.value.code, taskTitle(i))
       /\ svResult.value.thoughts = Concat([i \in 1..n |-> svCalls[i].solution.thoughts])
       /\ svResult.value.time_complexity
            = JoinWith([i \in 1..n |-> svCalls[i].solution.time_complexity], <<",", "_">>)
       /\ svResult.value.space_complexity
            = JoinWith([i \in 1..n |-> svCalls[i].solution.space_complexity], <<",", "_">>)

\* ---------------------------------------------------------------------- C27
\* the base64 images a request carries as images in the encoding of the
\* adapter's backend: the images field of an Ollama message, the inlineData
\* parts of Gemini, the image_url parts with a base64 data URL of OpenRouter
carriedImages(adapter, request) ==
  IF adapter = "ollama" THEN request.images
  ELSE Concat([i \in 1..Len(request.parts) |->
         LET p == request.parts[i]
         IN IF adapter = "gemini" /\ p.kind = "inlineData" THEN <<p.data>>
            ELSE IF adapter = "openrouter" /\ p.kind = "image_url" /\ dataUrlMatches(p.url)
            THEN <<p.url[4]>>
            ELSE <<>>])

\* the base64 images the adapter formatted into the content, in order
messageImages(adapter, content) ==
  Concat([i \in 1..Len(content) |->
    IF \E b \in Base64Images : content[i] = formatImageForProvider(adapter, b)
    THEN << CHOOSE b \in Base64Images : content[i] = formatImageForProvider(adapter, b) >>
    ELSE <<>>])

\* C27: the request an adapter's chat builds from a user message carries
\* every image the adapter formatted into the message, as an image in the
\* backend's encoding, in the original order, none dropped or sent as text.
C27_ImagesCarriedInOrder ==
  imRequest # NoRequest =>
    carriedImages(imMessage.adapter, imRequest)
      = messageImages(imMessage.adapter, imMessage.content)

\* ---------------------------------------------------------------------- C28
\* C28: config and adapter are replaced together: in every state the held
\* provider is the adapter built for the held config, of the type the config
\* names and built when that config arrived, also when the new apiProvider has
\* no registered adapter.
C28_ProviderBuiltForConfig ==
  /\ provider.type = config.apiProvider
  /\ provider.gen = nUpdates

\* ---------------------------------------------------------------------- C29
\* C29: while the newest run is in flight and has not been cancelled,
\* currentProcessingAbortController is the controller that run created: the
\* finally of an earlier run does not clear it, so that a cancelOngoingRequests
\* call then aborts the signal of that run and reports the cancellation.
C29_NewestRunOwnsController ==
  \A r \in Runs :
    (InFlight(r) /\ ~Superseded(r) /\ r \notin aborted)
      => currentProcessingAbortController = r

\* ---------------------------------------------------------------------- C30
\* C30: the solve stage of a run goes on with the problem info the extraction
\* of the same run returned, whatever cancelOngoingRequests or the extraction
\* of another run did to the shared problem info in between.
C30_SolvesOwnExtraction ==
  [][\A r \in Runs :
       (pc[r] = "solveLang" /\ pc'[r] # "solveLang")
         => runInput'[r].solved = runInput[r].extracted]_vars

\* C30 witness: a run is in its solve call with the info it extracted while
\* the shared problem info has been cleared or replaced.
C30_Witness ==
  \E r \in Runs :
    /\ pc[r] = "solve"
    /\ runInput[r].solved = runInput[r].extracted
    /\ problemInfo # runInput[r].extracted

====
